---- MODULE Spec2Model ----
(***************************************************************************)
(* Model of the attendance sheet's time accounting (utils/time-calculation *)
(* .ts): calculateDailyStats, which turns a day's work spans and breaks    *)
(* into worked, overtime and night minutes, and calculateEstimatedSalary.  *)
(***************************************************************************)
EXTENDS Integers, Sequences, FiniteSets, TLC

VARIABLES
    workSpans,   \* the WorkSpan[] handed to calculateDailyStats
    breaks,      \* the BreakTime[] handed to calculateDailyStats
    pc,          \* "ready": the call has not run, "done": it has returned
    stats,       \* the object the call returned (NoStats before)
    salaryArgs,  \* the four arguments handed to calculateEstimatedSalary
    estimatedSalary, \* what calculateEstimatedSalary returned (NoSalary before)
    activation,  \* per call site: the running call of calculateDailyStats
                 \* (its arguments, its position, its two local totals)
    returned,    \* every (arguments, result) pair a call has returned so far
    attendance_records, \* the rows of table attendance_records; a row's id is
                 \* its position
    attendanceRecords, \* dashboard page: the records it has loaded
    loadPending, \* dashboard page: loadAttendanceRecords is under way
    selectedDate, \* dashboard page: the date clicked last (NoDate before)
    isModalOpen, \* dashboard page: the edit form is open
    formValues,  \* edit form: work_spans, breaks and status of the form
    computedValues, \* edit form: the state the recalculation effect sets
    saveCalls,   \* the calls of handleSaveAttendance under way
    savesStarted, \* how many calls of handleSaveAttendance have been made
    adminRecords, \* admin attendance page: the records it has loaded
    summaryShown, \* the figures of the summary cards as rendered last, of the
                 \* dashboard and of the admin page
    currentUser, \* localStorage item attendance_current_user: the id of the
                 \* user stored, NoUser when there is none
    authCall,    \* the last call of authenticate / authenticateByEmployeeId:
                 \* its arguments and what it returned
    helperCall,  \* the call of one of the single-shift helpers: the function
                 \* and its arguments
    helperResult, \* what the call returned (NoResult before)
    queryCall,   \* the call of getAttendanceRecordsByUserIdAndMonth: the table
                 \* it reads and its arguments
    queryResult, \* what the call returned (NoQueryResult before)
    route,       \* the route the browser shows
    usersTable,  \* employee management: the rows of table users
    employees,   \* employee management page: the list it shows
    requests,    \* employee management: the requests the page has sent to the
                 \* backend and that have not completed
    actionsStarted, \* employee management page: how many create, update and
                 \* delete actions have been made
    monthView,   \* dashboard page: currentYear, currentMonth and the
                 \* attendanceRecords it shows
    monthRequests, \* dashboard page: the record loads and the saves under way
    monthTable,  \* the rows of attendance_records of the dashboard's user, by
                 \* the year and month of their date
    monthEvents, \* dashboard page: how many month clicks and saves were made
    guard        \* useAuth of the page shown: its state user and isLoading,
                 \* whether its effect has run, the session user the effect
                 \* read (seen), the router.push under way

sheetVars == <<attendance_records, attendanceRecords, loadPending, selectedDate,
               isModalOpen, formValues, computedValues, saveCalls, savesStarted,
               adminRecords, summaryShown>>

authVars == <<currentUser, authCall>>

helperVars == <<helperCall, helperResult>>

\* the variables of the pages and helpers that the calls above do not touch
queryVars == <<queryCall, queryResult>>

guardVars == <<route, guard>>

\* the variables of the pages modelled on their own
employeesVars == <<usersTable, employees, requests, actionsStarted>>

monthVars == <<monthView, monthRequests, monthTable, monthEvents>>

pageVars == <<guardVars, employeesVars, monthVars>>

restVars == <<helperVars, queryVars, pageVars>>

vars == <<workSpans, breaks, pc, stats, salaryArgs, estimatedSalary,
          activation, returned, sheetVars, authVars, restVars>>

----------------------------------------------------------------------------
(* Bounds of the model *)

\* a day record holds at most this many intervals (work spans plus breaks)
MaxIntervals == 3

\* the minute totals handed to calculateEstimatedSalary run over 0..MaxMinutes,
\* besides the totals of the documented scenarios
MaxMinutes == 12

\* each call site calls calculateDailyStats at most this many times
MaxCalls == 2

\* a call of a single-shift helper is given at most this many intervals
\* (work spans plus breaks)
MaxHelperIntervals == 3

\* the table read by the month query holds at most this many rows
MaxQueryRows == 2

\* the admin makes at most this many create, update and delete actions on
\* the employee management page
MaxEmployeeActions == 2

\* on the dashboard the employee clicks previous / next month at most this
\* many times, and saves at most MaxMonthSaves records
MaxMonthClicks == 2
MaxMonthSaves == 1

\* the employee saves the edit form at most this many times
MaxSaves == 2

\* the two summary cards together are given at most this many records
MaxSummaryRecords == 2

\* a day record of unvalidated strings holds at most this many intervals
MaxAnyIntervals == 2

----------------------------------------------------------------------------
(* Time strings.  A string is the sequence of its characters, so that      *)
(* timeToMinutes parses it the way the code does.                          *)

Max(a, b) == IF a > b THEN a ELSE b
Min(a, b) == IF a < b THEN a ELSE b

Digits == {"0", "1", "2", "3", "4", "5", "6", "7", "8", "9"}

DigitValue(c) ==
    CASE c = "0" -> 0 [] c = "1" -> 1 [] c = "2" -> 2 [] c = "3" -> 3
      [] c = "4" -> 4 [] c = "5" -> 5 [] c = "6" -> 6 [] c = "7" -> 7
      [] c = "8" -> 8 [] c = "9" -> 9

\* String.prototype.includes(':')
IncludesColon(s) == \E k \in 1..Len(s) : s[k] = ":"

\* index of the first ':' at or after position from, Len(s)+1 when there is none
RECURSIVE ColonFrom(_, _)
ColonFrom(s, from) ==
    IF from > Len(s) THEN Len(s) + 1
    ELSE IF s[from] = ":" THEN from
    ELSE ColonFrom(s, from + 1)

\* s.split(':')[0] and s.split(':')[1] for a string that includes ':'
SplitFirst(s) == SubSeq(s, 1, ColonFrom(s, 1) - 1)
SplitSecond(s) ==
    LET c1 == ColonFrom(s, 1)
    IN  SubSeq(s, c1 + 1, ColonFrom(s, c1 + 1) - 1)

\* Number(seg) is NaN unless seg is empty or all decimal digits
NumberIsNaN(seg) == \E k \in 1..Len(seg) : seg[k] \notin Digits

\* Number(seg) for a segment that is not NaN; Number("") is 0
RECURSIVE NumberOf(_)
NumberOf(seg) ==
    IF seg = <<>> THEN 0
    ELSE 10 * NumberOf(SubSeq(seg, 1, Len(seg) - 1)) + DigitValue(seg[Len(seg)])

\* the value of a start or end that is missing (undefined); it is no string
Undefined == <<"undefined">>

\* a variant that tests timeStr === '' only
FalsyEmptyOnly(timeStr) == timeStr = <<>>

\* !timeStr: true of undefined and of the empty string
Falsy(timeStr) == timeStr = Undefined \/ timeStr = <<>>

\* timeToMinutes throws when it reaches timeStr.includes with undefined
\* (TypeError); the test !timeStr before it is what keeps that from happening
timeToMinutesThrows(timeStr) == ~Falsy(timeStr) /\ timeStr = Undefined

\* timeToMinutes: a missing or empty string, one without ':' and one whose
\* hour or minute part is not a number are all read as minute 0
timeToMinutes(timeStr) ==
    IF Falsy(timeStr) \/ ~IncludesColon(timeStr) THEN 0
    ELSE LET hours == SplitFirst(timeStr)
             minutes == SplitSecond(timeStr)
         IN  IF NumberIsNaN(hours) \/ NumberIsNaN(minutes) THEN 0
             ELSE NumberOf(hours) * 60 + NumberOf(minutes)

\* the pattern of timeStringSchema: ^([0-1][0-9]|2[0-3]):[0-5][0-9]$
MatchesHHmm(t) ==
    /\ t # Undefined
    /\ Len(t) = 5
    /\ \/ t[1] \in {"0", "1"} /\ t[2] \in Digits
       \/ t[1] = "2" /\ t[2] \in {"0", "1", "2", "3"}
    /\ t[3] = ":"
    /\ t[4] \in {"0", "1", "2", "3", "4", "5"}
    /\ t[5] \in Digits

----------------------------------------------------------------------------
(* calculateDailyStats *)

NIGHT_START == 1320
StandardWorkMinutes == 480

NoStats == [workTime |-> -1, overtime |-> -1, nightTime |-> -1]

\* const spanStart = timeToMinutes(span.start_time)
spanStartOf(span) == timeToMinutes(span.start_time)

\* a variant that rolls an end at or before the start over to the next day
spanEndNextDay(span) ==
    IF timeToMinutes(span.end_time) <= timeToMinutes(span.start_time)
    THEN timeToMinutes(span.end_time) + 1440
    ELSE timeToMinutes(span.end_time)

\* const spanEnd = timeToMinutes(span.end_time)
spanEndOf(span) == timeToMinutes(span.end_time)

\* a variant that deducts the whole break, wherever it lies
breakOverlapUnclipped(lo, hi, brk) ==
    LET brkStart == timeToMinutes(brk.start)
        brkEnd == timeToMinutes(brk.end)
    IN  IF brkEnd > brkStart THEN brkEnd - brkStart ELSE 0

\* the body of breaks.forEach: what one break adds to the deduction of the
\* interval [lo, hi]; a break whose end is not after its start adds nothing
breakOverlap(lo, hi, brk) ==
    LET brkStart == timeToMinutes(brk.start)
        brkEnd == timeToMinutes(brk.end)
    IN  IF brkEnd > brkStart
        THEN LET overlapStart == Max(lo, brkStart)
                 overlapEnd == Min(hi, brkEnd)
             IN  IF overlapEnd > overlapStart THEN overlapEnd - overlapStart ELSE 0
        ELSE 0

\* breaks.forEach over the whole list, started at 0
RECURSIVE deduction(_, _, _)
deduction(lo, hi, brks) ==
    IF brks = <<>> THEN 0
    ELSE deduction(lo, hi, SubSeq(brks, 1, Len(brks) - 1))
         + breakOverlap(lo, hi, brks[Len(brks)])

\* a variant that ends the night part at 05:00 of the next day at the earliest
nightWorkEndUpTo5(spanEnd) == Max(spanEnd, 1740)

\* const nightWorkStart = Math.max(spanStart, NIGHT_START)
nightWorkStartOf(spanStart) == Max(spanStart, NIGHT_START)

\* const nightWorkEnd = Math.max(spanEnd, NIGHT_START)
nightWorkEndOf(spanEnd) == Max(spanEnd, NIGHT_START)

\* part A of the forEach body: the worked minutes one span adds
spanWork(span, brks) ==
    LET spanStart == spanStartOf(span)
        spanEnd == spanEndOf(span)
    IN  IF spanStart > 0 /\ spanEnd > spanStart
        THEN Max(0, (spanEnd - spanStart) - deduction(spanStart, spanEnd, brks))
        ELSE 0

\* part B of the forEach body: the night minutes one span adds
spanNight(span, brks) ==
    LET spanStart == spanStartOf(span)
        spanEnd == spanEndOf(span)
    IN  IF spanStart > 0 /\ spanEnd > spanStart
        THEN LET nightWorkStart == nightWorkStartOf(spanStart)
                 nightWorkEnd == nightWorkEndOf(spanEnd)
             IN  IF nightWorkEnd > nightWorkStart
                 THEN Max(0, (nightWorkEnd - nightWorkStart)
                             - deduction(nightWorkStart, nightWorkEnd, brks))
                 ELSE 0
        ELSE 0

\* a variant that assigns the span's minutes instead of adding them
spanBodyAssigned(totals, span, brks) ==
    [work |-> spanWork(span, brks), night |-> spanNight(span, brks)]

\* one turn of workSpans.forEach: the two running totals after the span
spanBody(totals, span, brks) ==
    [work |-> totals.work + spanWork(span, brks),
     night |-> totals.night + spanNight(span, brks)]

\* let totalWorkMinutes = 0; let totalNightMinutes = 0
entryTotals == [work |-> 0, night |-> 0]

\* a variant whose totals live outside the function and are never reset
localsKept(left) == left

\* the two locals of a new call; left is what the call site's previous call
\* left in its own, dead, locals
localsAtEntry(left) == entryTotals

\* workSpans.forEach from the given totals
RECURSIVE forEachSpan(_, _, _)
forEachSpan(totals, spans, brks) ==
    IF spans = <<>> THEN totals
    ELSE spanBody(forEachSpan(totals, SubSeq(spans, 1, Len(spans) - 1), brks),
                  spans[Len(spans)], brks)

\* const overtimeMinutes = totalWorkMinutes > 480 ? totalWorkMinutes - 480 : 0
overtimeOf(totalWorkMinutes) ==
    IF totalWorkMinutes > StandardWorkMinutes
    THEN totalWorkMinutes - StandardWorkMinutes
    ELSE 0

\* a variant that caps the day's worked minutes at the length of a day
returnStatsClamped(totals) ==
    [workTime |-> Min(totals.work, 1440),
     overtime |-> overtimeOf(Min(totals.work, 1440)),
     nightTime |-> totals.night]

\* the returned object
returnStats(totals) ==
    [workTime |-> totals.work,
     overtime |-> overtimeOf(totals.work),
     nightTime |-> totals.night]

\* a variant that applies the 8-hour threshold to each span separately
RECURSIVE overtimePerSpan(_, _)
overtimePerSpan(spans, brks) ==
    IF spans = <<>> THEN 0
    ELSE overtimePerSpan(Tail(spans), brks) + overtimeOf(spanWork(Head(spans), brks))

calculateDailyStatsPerSpan(spans, brks) ==
    [returnStats(forEachSpan(entryTotals, spans, brks))
        EXCEPT !.overtime = overtimePerSpan(spans, brks)]

calculateDailyStats(spans, brks) ==
    returnStats(forEachSpan(entryTotals, spans, brks))

\* the call ends in an exception: some timeToMinutes it evaluates throws.
\* The span times are converted for every span, the break times only inside
\* the guarded block
calculateDailyStatsThrows(spans, brks) ==
    \E k \in 1..Len(spans) :
        \/ timeToMinutesThrows(spans[k].start_time)
        \/ timeToMinutesThrows(spans[k].end_time)
        \/ /\ spanStartOf(spans[k]) > 0
           /\ spanEndOf(spans[k]) > spanStartOf(spans[k])
           /\ \E j \in 1..Len(brks) :
                  timeToMinutesThrows(brks[j].start) \/ timeToMinutesThrows(brks[j].end)

----------------------------------------------------------------------------
(* IEEE 754 double arithmetic, as far as calculateEstimatedSalary uses it. *)
(* A double >= 0 is [n, e] with the value n * 2^e, n a natural number of   *)
(* at most 53 bits.  n is written in limbs of 14 bits, the least           *)
(* significant first (no limbs for 0).  Every operation rounds its exact   *)
(* result to 53 significant bits, to nearest, ties to even.                *)

SignificandBits == 53
LimbBits == 14
LimbBase == 2 ^ LimbBits

DoubleZero == [n |-> <<>>, e |-> 0]

Zeros(k) == [i \in 1..k |-> 0]

\* the number of bits of v, for 0 <= v < 2^30
BitLen(v) == IF v = 0 THEN 0 ELSE CHOOSE k \in 1..30 : 2 ^ (k - 1) <= v /\ v < 2 ^ k

RECURSIVE BigFromNat(_)
BigFromNat(v) ==
    IF v = 0 THEN <<>> ELSE <<v % LimbBase>> \o BigFromNat(v \div LimbBase)

\* the value of limbs that hold a number below 2^31
RECURSIVE BigToNat(_)
BigToNat(n) == IF n = <<>> THEN 0 ELSE Head(n) + LimbBase * BigToNat(Tail(n))

\* drop the zero limbs at the most significant end
RECURSIVE BigStrip(_)
BigStrip(n) ==
    IF n = <<>> THEN <<>>
    ELSE IF n[Len(n)] = 0 THEN BigStrip(SubSeq(n, 1, Len(n) - 1))
    ELSE n

BigLimb(n, i) == IF i <= Len(n) THEN n[i] ELSE 0

BigBitLen(n) == IF n = <<>> THEN 0 ELSE (Len(n) - 1) * LimbBits + BitLen(n[Len(n)])

\* n * h + carry, for h and carry below 2^16
RECURSIVE BigMulSmall(_, _, _)
BigMulSmall(n, h, carry) ==
    IF n = <<>> THEN BigFromNat(carry)
    ELSE LET s == Head(n) * h + carry
         IN  <<s % LimbBase>> \o BigMulSmall(Tail(n), h, s \div LimbBase)

\* a + b + carry
RECURSIVE BigAdd(_, _, _)
BigAdd(a, b, carry) ==
    IF a = <<>> /\ b = <<>> THEN BigFromNat(carry)
    ELSE LET s == BigLimb(a, 1) + BigLimb(b, 1) + carry
         IN  <<s % LimbBase>>
             \o BigAdd(IF a = <<>> THEN <<>> ELSE Tail(a),
                       IF b = <<>> THEN <<>> ELSE Tail(b), s \div LimbBase)

\* n * 2^k
BigShiftLeft(n, k) ==
    IF n = <<>> THEN <<>>
    ELSE Zeros(k \div LimbBits) \o BigMulSmall(n, 2 ^ (k % LimbBits), 0)

\* floor(n / 2^k)
BigShiftRight(n, k) ==
    LET ls == k \div LimbBits
        bs == k % LimbBits
    IN  BigStrip([i \in 1..(Len(n) - ls) |->
                    (BigLimb(n, i + ls) \div 2 ^ bs)
                    + (BigLimb(n, i + ls + 1) % 2 ^ bs) * 2 ^ (LimbBits - bs)])

\* bit k of n, bit 0 the least significant
BigBit(n, k) == (BigLimb(n, k \div LimbBits + 1) \div 2 ^ (k % LimbBits)) % 2

\* whether any of the bits 0..k-1 of n is set
BigLowBits(n, k) ==
    \/ \E i \in 1..(k \div LimbBits) : BigLimb(n, i) # 0
    \/ BigLimb(n, k \div LimbBits + 1) % 2 ^ (k % LimbBits) # 0

\* the double nearest to n * 2^e (plus, when sticky, a non-zero remainder
\* below the last bit of n), ties to even
RoundToDouble(n, e, sticky) ==
    LET len == BigBitLen(n)
        k == len - SignificandBits
        q == BigShiftRight(n, k)
        up == /\ BigBit(n, k - 1) = 1
              /\ (sticky \/ BigLowBits(n, k - 1) \/ BigBit(q, 0) = 1)
        r == IF up THEN BigAdd(q, <<1>>, 0) ELSE q
    IN  IF len <= SignificandBits THEN [n |-> n, e |-> e]
        ELSE IF BigBitLen(r) > SignificandBits
        THEN [n |-> BigShiftRight(r, 1), e |-> e + k + 1]
        ELSE [n |-> r, e |-> e + k]

\* long division of the limbs i.. of n by b < 2^16: quotient and remainder
RECURSIVE BigDivSmall(_, _, _)
BigDivSmall(n, b, i) ==
    IF i > Len(n) THEN [q |-> <<>>, r |-> 0]
    ELSE LET high == BigDivSmall(n, b, i + 1)
             cur == high.r * LimbBase + n[i]
         IN  [q |-> <<cur \div b>> \o high.q, r |-> cur % b]

\* the quotient is taken to 5 limbs below the binary point: for a >= 1 that
\* is more bits than a significand holds
DivFractionLimbs == 5

\* a / b for natural numbers a < 2^31 and 0 < b < 2^16 (both exact doubles)
DoubleDiv(a, b) ==
    LET d == BigDivSmall(Zeros(DivFractionLimbs) \o BigFromNat(a), b, 1)
    IN  RoundToDouble(BigStrip(d.q), 0 - DivFractionLimbs * LimbBits, d.r # 0)

\* x * h for a double x and a natural number h < 2^16 (an exact double)
DoubleMulNat(x, h) ==
    RoundToDouble(BigStrip(BigMulSmall(x.n, h, 0)), x.e, FALSE)

\* x * 0.25: a power of two, exact
DoubleQuarter(x) == IF x.n = <<>> THEN DoubleZero ELSE [n |-> x.n, e |-> x.e - 2]

\* x + y
DoubleAdd(x, y) ==
    IF x.n = <<>> THEN y
    ELSE IF y.n = <<>> THEN x
    ELSE LET e == Min(x.e, y.e)
         IN  RoundToDouble(BigAdd(BigShiftLeft(x.n, x.e - e),
                                  BigShiftLeft(y.n, y.e - e), 0), e, FALSE)

\* Math.floor(x), for 0 <= x < 2^31
DoubleFloor(x) ==
    IF x.e >= 0 THEN BigToNat(BigShiftLeft(x.n, x.e))
    ELSE BigToNat(BigShiftRight(x.n, 0 - x.e))

----------------------------------------------------------------------------
(* calculateEstimatedSalary *)

MinutesPerHour == 60

calculateEstimatedSalary(totalWorkMinutes, overtimeMinutes, nightMinutes, hourlyWage) ==
    LET totalHours == DoubleDiv(totalWorkMinutes, MinutesPerHour)
        overtimeHours == DoubleDiv(overtimeMinutes, MinutesPerHour)
        nightHours == DoubleDiv(nightMinutes, MinutesPerHour)
        baseSalary == DoubleMulNat(totalHours, hourlyWage)
        overtimeAllowance == DoubleQuarter(DoubleMulNat(overtimeHours, hourlyWage))
        nightAllowance == DoubleQuarter(DoubleMulNat(nightHours, hourlyWage))
    IN  DoubleFloor(DoubleAdd(DoubleAdd(baseSalary, overtimeAllowance), nightAllowance))

----------------------------------------------------------------------------
(* Inputs *)

T0000 == <<"0", "0", ":", "0", "0">>
T0930 == <<"0", "9", ":", "3", "0">>
T2200 == <<"2", "2", ":", "0", "0">>
T2315 == <<"2", "3", ":", "1", "5">>

\* the HH:mm strings the inputs are drawn from
Times == {T0000, T0930, T2200, T2315}

\* strings that are no HH:mm time: the empty string, one without a colon,
\* one that is not numeric, and an hour past 23
TEmpty == <<>>
TNoColon == <<"0", "9", "3", "0">>
TLetters == <<"a", "b", ":", "c", "d">>
T2500 == <<"2", "5", ":", "0", "0">>

\* what a start or end may hold when nothing has validated it
AnyTimes == {Undefined, TEmpty, TNoColon, TLetters, T2500, T0930}

AnyWorkSpanSet == [start_time : AnyTimes, end_time : AnyTimes]
AnyBreakTimeSet == [start : AnyTimes, end : AnyTimes]

WorkSpanSet == [start_time : Times, end_time : Times]
BreakTimeSet == [start : Times, end : Times]

SeqsUpTo(S, n) == UNION {[1..k -> S] : k \in 0..n}

\* the list without its k-th element
RemoveAt(seq, k) == SubSeq(seq, 1, k - 1) \o SubSeq(seq, k + 1, Len(seq))

\* the two places that call calculateDailyStats: the calendar cell and
\* the edit form's recalculation effect
CallSites == {"calendar", "editModal"}

NoArgs == [workSpans |-> <<>>, breaks |-> <<>>]

IdleActivation(args) ==
    [args |-> args, at |-> "idle", i |-> 0, totals |-> entryTotals, calls |-> 0]

\* the lists the call sites hand over
CallSpans == {[start_time |-> T0930, end_time |-> T2200],
              [start_time |-> T2200, end_time |-> T2315]}
CallBreaks == {[start |-> T2200, end |-> T2315]}
CallInputs == [workSpans : SeqsUpTo(CallSpans, 2), breaks : SeqsUpTo(CallBreaks, 1)]

NoSalary == -1
NoSalaryArgs ==
    [totalWorkMinutes |-> 0, overtimeMinutes |-> 0, nightMinutes |-> 0, hourlyWage |-> 0]

\* the minute totals of the documented scenarios
ScenarioMinutes == {60, 360, 480, 840}

\* hourly wages (yen)
Wages == {0, 7, 1200, 1500}

SalaryArgSet ==
    [totalWorkMinutes : (0..MaxMinutes) \cup ScenarioMinutes,
     overtimeMinutes : {0, 1, 360},
     nightMinutes : {0, 1, 60},
     hourlyWage : Wages]

----------------------------------------------------------------------------
(* The attendance sheet: table attendance_records, the employee's          *)
(* dashboard page with its edit form, and the admin's attendance page.     *)

T0900 == <<"0", "9", ":", "0", "0">>
T1200 == <<"1", "2", ":", "0", "0">>
T1300 == <<"1", "3", ":", "0", "0">>
T1800 == <<"1", "8", ":", "0", "0">>

\* the dates of the month on the calendar, in calendar order
Dates == <<"2025-01-10", "2025-01-11">>
NoDate == "null"
DateIndex(d) == CHOOSE k \in 1..Len(Dates) : Dates[k] = d

\* the employee whose dashboard it is (seed row of table users), the wage
EmployeeId == "E001"
EmployeeWage == 1500

Statuses == {"draft", "pending", "approved", "remanded"}

\* what the form holds when no record exists for the date
DefaultWorkSpans == <<[start_time |-> T0900, end_time |-> T1800]>>
DefaultBreaks == <<[start |-> T1200, end |-> T1300]>>
DefaultValues ==
    [work_spans |-> DefaultWorkSpans, breaks |-> DefaultBreaks, status |-> "pending"]

\* what the employee types into the span fields: the default hours, a long
\* day into the night, or a start time left empty
TypedWorkSpans ==
    {DefaultWorkSpans,
     <<[start_time |-> T0930, end_time |-> T2315]>>,
     <<[start_time |-> TEmpty, end_time |-> T1800]>>}

NoComputed == [workMinutes |-> 0, overtimeMinutes |-> 0, nightMinutes |-> 0]

\* the summary cards are not looked at
NoSummary == [dashboard |-> <<>>, admin |-> <<>>]

\* table users: the seed rows; the password column is added later and is
\* NULL until a password is set
NoPassword == "NULL"
users ==
    {[id |-> "u1", email |-> "yamada@example.com", employee_id |-> "E001",
      role |-> "employee", password |-> "user123"],
     [id |-> "u2", email |-> "sato@example.com", employee_id |-> "E002",
      role |-> "employee", password |-> NoPassword],
     [id |-> "u3", email |-> "admin@example.com", employee_id |-> "A001",
      role |-> "admin", password |-> "fkjahdiojFJ209u"]}

NoUser == "null"
NoAuthCall == [fn |-> "none", key |-> "", password |-> "", returned |-> NoUser]

\* no login: the state of the session variables where login plays no part
NoAuth ==
    /\ currentUser = NoUser
    /\ authCall = NoAuthCall

\* no helper call
NoHelperCall == [fn |-> "none", workSpans |-> <<>>, breaks |-> <<>>]
NoResult == [at |-> "ready", value |-> 0]
NoHelper ==
    /\ helperCall = NoHelperCall
    /\ helperResult = NoResult

\* no month query
NoQueryCall == [table |-> <<>>, userId |-> "", year |-> 0, month |-> 0]
NoQueryResult == [at |-> "ready", data |-> <<>>]
NoQuery ==
    /\ queryCall = NoQueryCall
    /\ queryResult = NoQueryResult

\* no page shown: the browser is at the login page
NoPush == "none"
FreshGuard ==
    [user |-> NoUser, isLoading |-> TRUE, effectRan |-> FALSE, seen |-> NoUser,
     push |-> NoPush]
NoGuard ==
    /\ route = "/login"
    /\ guard = FreshGuard

\* the employee management page is not shown
NoEmployees ==
    /\ usersTable = {}
    /\ employees = {}
    /\ requests = {}
    /\ actionsStarted = 0

\* the dashboard's month navigation is not shown
NoMonths ==
    /\ monthView = [year |-> 0, month |-> 0, records |-> {}]
    /\ monthRequests = {}
    /\ monthTable = {}
    /\ monthEvents = [clicks |-> 0, saves |-> 0]

NoPages ==
    /\ NoGuard
    /\ NoEmployees
    /\ NoMonths

\* the state of the later variables where they play no part
NoRest ==
    /\ NoHelper
    /\ NoQuery
    /\ NoPages

\* no sheet: the state of these variables where the sheet plays no part
NoSheet ==
    /\ attendance_records = <<>>
    /\ attendanceRecords = <<>>
    /\ loadPending = FALSE
    /\ selectedDate = NoDate
    /\ isModalOpen = FALSE
    /\ formValues = DefaultValues
    /\ computedValues = NoComputed
    /\ saveCalls = <<>>
    /\ savesStarted = 0
    /\ adminRecords = <<>>
    /\ summaryShown = NoSummary

----------------------------------------------------------------------------
(* The call *)

Init ==
    /\ workSpans \in SeqsUpTo(WorkSpanSet, MaxIntervals)
    /\ breaks \in SeqsUpTo(BreakTimeSet, MaxIntervals - Len(workSpans))
    /\ pc = "ready"
    /\ stats = NoStats
    /\ salaryArgs = NoSalaryArgs
    /\ estimatedSalary = NoSalary
    /\ activation = [c \in CallSites |-> IdleActivation(NoArgs)]
    /\ returned = {}
    /\ NoSheet
    /\ NoAuth
    /\ NoRest

CallDailyStats ==
    /\ pc = "ready"
    /\ IF calculateDailyStatsThrows(workSpans, breaks)
       THEN pc' = "raised" /\ UNCHANGED stats
       ELSE pc' = "done" /\ stats' = calculateDailyStats(workSpans, breaks)
    /\ UNCHANGED <<workSpans, breaks, salaryArgs, estimatedSalary, activation, returned>>
    /\ UNCHANGED <<sheetVars, authVars, restVars>>

Next == CallDailyStats

Spec == Init /\ [][Next]_vars

----------------------------------------------------------------------------
(* The same call on lists whose time strings are not validated: missing,   *)
(* empty, without a colon, not numeric, or out of the clock's range.       *)

InitAnyStrings ==
    /\ workSpans \in SeqsUpTo(AnyWorkSpanSet, MaxAnyIntervals)
    /\ breaks \in SeqsUpTo(AnyBreakTimeSet, MaxAnyIntervals - Len(workSpans))
    /\ pc = "ready"
    /\ stats = NoStats
    /\ salaryArgs = NoSalaryArgs
    /\ estimatedSalary = NoSalary
    /\ activation = [c \in CallSites |-> IdleActivation(NoArgs)]
    /\ returned = {}
    /\ NoSheet
    /\ NoAuth
    /\ NoRest

NextAnyStrings == CallDailyStats

SpecAnyStrings == InitAnyStrings /\ [][NextAnyStrings]_vars

----------------------------------------------------------------------------
(* The salary estimate: calculateEstimatedSalary on monthly minute totals  *)
(* and an hourly wage, as the summary card and the admin page call it.     *)

InitSalary ==
    /\ salaryArgs \in SalaryArgSet
    /\ estimatedSalary = NoSalary
    /\ pc = "ready"
    /\ workSpans = <<>>
    /\ breaks = <<>>
    /\ stats = NoStats
    /\ activation = [c \in CallSites |-> IdleActivation(NoArgs)]
    /\ returned = {}
    /\ NoSheet
    /\ NoAuth
    /\ NoRest

CallEstimatedSalary ==
    /\ pc = "ready"
    /\ estimatedSalary' = calculateEstimatedSalary(salaryArgs.totalWorkMinutes,
                                                   salaryArgs.overtimeMinutes,
                                                   salaryArgs.nightMinutes,
                                                   salaryArgs.hourlyWage)
    /\ pc' = "done"
    /\ UNCHANGED <<workSpans, breaks, stats, salaryArgs, activation, returned>>
    /\ UNCHANGED <<sheetVars, authVars, restVars>>

NextSalary == CallEstimatedSalary

SpecSalary == InitSalary /\ [][NextSalary]_vars

----------------------------------------------------------------------------
(* Calls of calculateDailyStats from its call sites, one statement at a    *)
(* time.  JavaScript runs each call to completion; letting the calls       *)
(* interleave between loop turns covers every order of whole calls too.    *)

InitCalls ==
    /\ activation \in [CallSites -> {IdleActivation(a) : a \in CallInputs}]
    /\ returned = {}
    /\ pc = "ready"
    /\ workSpans = <<>>
    /\ breaks = <<>>
    /\ stats = NoStats
    /\ salaryArgs = NoSalaryArgs
    /\ estimatedSalary = NoSalary
    /\ NoSheet
    /\ NoAuth
    /\ NoRest

UnchangedByCalls ==
    UNCHANGED <<workSpans, breaks, pc, stats, salaryArgs, estimatedSalary, sheetVars,
                authVars, restVars>>

\* the call is entered: its locals are initialised
EnterCall(c) ==
    /\ activation[c].at = "idle"
    /\ activation[c].calls < MaxCalls
    /\ activation' = [activation EXCEPT
           ![c].at = "forEach",
           ![c].i = 1,
           ![c].totals = localsAtEntry(activation[c].totals)]
    /\ UNCHANGED returned
    /\ UnchangedByCalls

\* one turn of workSpans.forEach
ForEachTurn(c) ==
    /\ activation[c].at = "forEach"
    /\ activation[c].i <= Len(activation[c].args.workSpans)
    /\ activation' = [activation EXCEPT
           ![c].totals = spanBody(activation[c].totals,
                                  activation[c].args.workSpans[activation[c].i],
                                  activation[c].args.breaks),
           ![c].i = activation[c].i + 1]
    /\ UNCHANGED returned
    /\ UnchangedByCalls

\* the loop is over: overtime is computed and the object returned
ReturnCall(c) ==
    /\ activation[c].at = "forEach"
    /\ activation[c].i > Len(activation[c].args.workSpans)
    /\ returned' = returned \cup
           {[args |-> activation[c].args, result |-> returnStats(activation[c].totals)]}
    /\ activation' = [activation EXCEPT
           ![c].at = "idle",
           ![c].calls = activation[c].calls + 1]
    /\ UnchangedByCalls

NextCalls ==
    \E c \in CallSites : EnterCall(c) \/ ForEachTurn(c) \/ ReturnCall(c)

SpecCalls == InitCalls /\ [][NextCalls]_vars

----------------------------------------------------------------------------
(* Table attendance_records as lib/storage.ts reads and writes it *)

NoRow == 0

\* select ... eq(user_id) eq(date) .single(): the id of the row when exactly
\* one row matches; no row or several rows are an error, answered with null
getAttendanceRecordByUserIdAndDate(table, userId, date) ==
    LET hits == {i \in 1..Len(table) :
                    table[i].user_id = userId /\ table[i].date = date}
    IN  IF Cardinality(hits) = 1 THEN CHOOSE i \in hits : TRUE ELSE NoRow

\* insert: the row gets a fresh id
createAttendanceRecord(table, recordData) ==
    Append(table,
           [f \in DOMAIN recordData \cup {"id"} |->
               IF f = "id" THEN Len(table) + 1 ELSE recordData[f]])

\* a variant that writes a whole row: what recordData leaves out is set back
\* to the column defaults
updateWholeRow(table, id, recordData) ==
    IF id \in 1..Len(table)
    THEN [table EXCEPT ![id] =
             [f \in DOMAIN table[id] |->
                 IF f \in DOMAIN recordData THEN recordData[f]
                 ELSE IF f \in {"id", "user_id", "date"} THEN table[id][f]
                 ELSE IF f \in {"work_spans", "breaks"} THEN <<>>
                 ELSE IF f \in {"note", "work_content"} THEN ""
                 ELSE 0]]
    ELSE table

\* update ... eq(id): the columns recordData names are set, the others kept;
\* no such row is an error and changes nothing
updateAttendanceRecord(table, id, recordData) ==
    IF id \in 1..Len(table)
    THEN [table EXCEPT ![id] =
             [f \in DOMAIN table[id] |->
                 IF f \in DOMAIN recordData THEN recordData[f] ELSE table[id][f]]]
    ELSE table

\* select ... eq(user_id) gte/lte(date) order(date): the user's rows of the
\* month in date order; rows of one date come in any order
getAttendanceRecordsByUserIdAndMonth(table, userId) ==
    LET hits == {i \in 1..Len(table) : table[i].user_id = userId}
        n == Cardinality(hits)
        orders == {o \in [1..n -> hits] :
                      /\ \A k \in 1..n : \A l \in 1..n : o[k] = o[l] => k = l
                      /\ \A k \in 1..(n - 1) :
                            DateIndex(table[o[k]].date) <= DateIndex(table[o[k + 1]].date)}
    IN  {[k \in 1..n |-> table[o[k]]] : o \in orders}

----------------------------------------------------------------------------
(* The edit form (AttendanceEditModal).  React runs the effects of an      *)
(* event and the renders they ask for before the next user event is        *)
(* handled, so an action here is the handler together with its effects.    *)

\* attendanceRecords.find((r) => r.date === selectedDate): its position, 0
\* when there is none
FindByDate(records, date) ==
    IF \E k \in 1..Len(records) : records[k].date = date
    THEN CHOOSE k \in 1..Len(records) :
             /\ records[k].date = date
             /\ \A l \in 1..(k - 1) : records[l].date # date
    ELSE 0

\* the reset effect: the form takes the existing record's values, its
\* status included, or the defaults
ResetValues(records, date) ==
    LET k == FindByDate(records, date)
    IN  IF k = 0 THEN DefaultValues
        ELSE [work_spans |-> records[k].work_spans,
              breaks |-> records[k].breaks,
              status |-> records[k].status]

\* a variant whose effect runs once, on the form's default values, and never
\* again when the watched fields change
RecalculatedAtMount(values) ==
    LET result == calculateDailyStats(DefaultWorkSpans, DefaultBreaks)
    IN  [workMinutes |-> result.workTime,
         overtimeMinutes |-> result.overtime,
         nightMinutes |-> result.nightTime]

\* the recalculation effect on the watched work_spans and breaks
Recalculated(values) ==
    IF values.work_spans = <<>> THEN NoComputed
    ELSE LET result == calculateDailyStats(values.work_spans, values.breaks)
         IN  [workMinutes |-> result.workTime,
              overtimeMinutes |-> result.overtime,
              nightMinutes |-> result.nightTime]

\* zodResolver(attendanceRecordSchema)
FormIsValid(values) ==
    /\ Len(values.work_spans) >= 1
    /\ \A k \in 1..Len(values.work_spans) :
           /\ MatchesHHmm(values.work_spans[k].start_time)
           /\ MatchesHHmm(values.work_spans[k].end_time)
    /\ \A j \in 1..Len(values.breaks) :
           MatchesHHmm(values.breaks[j].start) /\ MatchesHHmm(values.breaks[j].end)
    /\ values.status \in Statuses

\* onSubmit(data) and the first, synchronous part of handleSaveAttendance:
\* the record to save, the date forced to selectedDate, and the lookup sent
SaveCallOf(values, button) ==
    [at |-> "lookup",
     button |-> button,
     userId |-> EmployeeId,
     date |-> selectedDate,
     existingRecord |-> NoRow,
     saveData |-> [date |-> selectedDate,
                   work_spans |-> values.work_spans,
                   breaks |-> values.breaks,
                   note |-> "",
                   work_content |-> "",
                   status |-> values.status,
                   computed_work_min |-> computedValues.workMinutes,
                   computed_overtime_min |-> computedValues.overtimeMinutes,
                   computed_night_min |-> computedValues.nightMinutes]]

UnchangedBySheet ==
    UNCHANGED <<workSpans, breaks, pc, stats, salaryArgs, estimatedSalary,
                activation, returned, summaryShown, authVars, restVars>>

InitSheet ==
    /\ attendance_records = <<>>
    /\ attendanceRecords = <<>>
    /\ loadPending = TRUE
    /\ selectedDate = NoDate
    /\ isModalOpen = FALSE
    /\ formValues = DefaultValues
    /\ computedValues = NoComputed
    /\ saveCalls = <<>>
    /\ savesStarted = 0
    /\ adminRecords = <<>>
    /\ summaryShown = NoSummary
    /\ NoAuth
    /\ NoRest
    /\ workSpans = <<>>
    /\ breaks = <<>>
    /\ pc = "ready"
    /\ stats = NoStats
    /\ salaryArgs = NoSalaryArgs
    /\ estimatedSalary = NoSalary
    /\ activation = [c \in CallSites |-> IdleActivation(NoArgs)]
    /\ returned = {}

\* loadAttendanceRecords: the answer arrives and is set; if the form is open
\* on a date that has a record, the new record object re-runs the reset effect
LoadAttendanceRecords ==
    /\ loadPending
    /\ \E records \in getAttendanceRecordsByUserIdAndMonth(attendance_records, EmployeeId) :
           /\ attendanceRecords' = records
           /\ IF isModalOpen /\ FindByDate(records, selectedDate) # 0
              THEN /\ formValues' = ResetValues(records, selectedDate)
                   /\ computedValues' = Recalculated(ResetValues(records, selectedDate))
              ELSE UNCHANGED <<formValues, computedValues>>
    /\ loadPending' = FALSE
    /\ UNCHANGED <<attendance_records, selectedDate, isModalOpen, saveCalls,
                   savesStarted, adminRecords>>
    /\ UnchangedBySheet

\* handleDateClick: the form opens on the date and is reset
HandleDateClick(date) ==
    /\ ~isModalOpen
    /\ selectedDate' = date
    /\ isModalOpen' = TRUE
    /\ formValues' = ResetValues(attendanceRecords, date)
    /\ computedValues' = Recalculated(ResetValues(attendanceRecords, date))
    /\ UNCHANGED <<attendance_records, attendanceRecords, loadPending, saveCalls,
                   savesStarted, adminRecords>>
    /\ UnchangedBySheet

\* the employee changes the times of the span fields
ChangeWorkSpans(typed) ==
    /\ isModalOpen
    /\ typed # formValues.work_spans
    /\ formValues' = [formValues EXCEPT !.work_spans = typed]
    /\ computedValues' = Recalculated([formValues EXCEPT !.work_spans = typed])
    /\ UNCHANGED <<attendance_records, attendanceRecords, loadPending, selectedDate,
                   isModalOpen, saveCalls, savesStarted, adminRecords>>
    /\ UnchangedBySheet

\* the save-draft button: handleDraftSave sets status to 'draft' and submits; when
\* validation fails nothing is saved and the form stays open
HandleDraftSave ==
    /\ isModalOpen
    /\ LET values == [formValues EXCEPT !.status = "draft"]
       IN  /\ formValues' = values
           /\ IF FormIsValid(values)
              THEN /\ savesStarted < MaxSaves
                   /\ saveCalls' = Append(saveCalls, SaveCallOf(values, "saveDraft"))
                   /\ savesStarted' = savesStarted + 1
                   /\ isModalOpen' = FALSE
              ELSE UNCHANGED <<saveCalls, savesStarted, isModalOpen>>
    /\ UNCHANGED <<attendance_records, attendanceRecords, loadPending, selectedDate,
                   computedValues, adminRecords>>
    /\ UnchangedBySheet

\* the save-and-submit button (type submit): the form is submitted as it stands; when validation
\* fails nothing happens
SubmitForm ==
    /\ isModalOpen
    /\ FormIsValid(formValues)
    /\ savesStarted < MaxSaves
    /\ saveCalls' = Append(saveCalls, SaveCallOf(formValues, "saveAndSubmit"))
    /\ savesStarted' = savesStarted + 1
    /\ isModalOpen' = FALSE
    /\ UNCHANGED <<attendance_records, attendanceRecords, loadPending, selectedDate,
                   formValues, computedValues, adminRecords>>
    /\ UnchangedBySheet

\* the cancel button
CancelForm ==
    /\ isModalOpen
    /\ isModalOpen' = FALSE
    /\ UNCHANGED <<attendance_records, attendanceRecords, loadPending, selectedDate,
                   formValues, computedValues, saveCalls, savesStarted,
                   adminRecords>>
    /\ UnchangedBySheet

\* handleSaveAttendance, the lookup: the table answers the select
SaveLookup(c) ==
    /\ saveCalls[c].at = "lookup"
    /\ saveCalls' = [saveCalls EXCEPT
           ![c].at = "write",
           ![c].existingRecord =
               getAttendanceRecordByUserIdAndDate(attendance_records,
                                                  saveCalls[c].userId, saveCalls[c].date)]
    /\ UNCHANGED <<attendance_records, attendanceRecords, loadPending, selectedDate,
                   isModalOpen, formValues, computedValues, savesStarted,
                   adminRecords>>
    /\ UnchangedBySheet

\* handleSaveAttendance, the write: update of the record found or insert of
\* a new one; then the reload is started and the form closed
SaveWrite(c) ==
    /\ saveCalls[c].at = "write"
    /\ attendance_records' =
           IF saveCalls[c].existingRecord # NoRow
           THEN updateAttendanceRecord(attendance_records, saveCalls[c].existingRecord,
                                       saveCalls[c].saveData)
           ELSE createAttendanceRecord(attendance_records,
                    [f \in DOMAIN saveCalls[c].saveData \cup {"user_id"} |->
                        IF f = "user_id" THEN saveCalls[c].userId
                        ELSE saveCalls[c].saveData[f]])
    /\ saveCalls' = RemoveAt(saveCalls, c)
    /\ loadPending' = TRUE
    /\ isModalOpen' = FALSE
    /\ UNCHANGED <<attendanceRecords, selectedDate, formValues, computedValues,
                   savesStarted, adminRecords>>
    /\ UnchangedBySheet

----------------------------------------------------------------------------
(* The admin's attendance page of the employee.  The page uses the records *)
(* the month query answers with.                                           *)

\* loadEmployeeData: the month's records, sorted by date
LoadEmployeeData ==
    /\ \E records \in getAttendanceRecordsByUserIdAndMonth(attendance_records, EmployeeId) :
           adminRecords' = records
    /\ adminRecords' # adminRecords
    /\ UNCHANGED <<attendance_records, attendanceRecords, loadPending, selectedDate,
                   isModalOpen, formValues, computedValues, saveCalls, savesStarted>>
    /\ UnchangedBySheet

\* the buttons of a row are rendered for record.status === 'pending' only;
\* the handler sends the update of the status and reloads without waiting,
\* so the reload sees the table before or after the update
SetStatusByAdmin(k, status) ==
    /\ k \in 1..Len(adminRecords)
    /\ adminRecords[k].status = "pending"
    /\ attendance_records' =
           updateAttendanceRecord(attendance_records, adminRecords[k].id,
                                  [status |-> status])
    /\ \E records \in
           getAttendanceRecordsByUserIdAndMonth(attendance_records, EmployeeId)
           \cup getAttendanceRecordsByUserIdAndMonth(attendance_records', EmployeeId) :
               adminRecords' = records
    /\ UNCHANGED <<attendanceRecords, loadPending, selectedDate, isModalOpen,
                   formValues, computedValues, saveCalls, savesStarted>>
    /\ UnchangedBySheet

HandleApprove(k) == SetStatusByAdmin(k, "approved")
HandleRemand(k) == SetStatusByAdmin(k, "remanded")

NextSheet ==
    \/ LoadAttendanceRecords
    \/ \E date \in {Dates[k] : k \in 1..Len(Dates)} : HandleDateClick(date)
    \/ \E typed \in TypedWorkSpans : ChangeWorkSpans(typed)
    \/ HandleDraftSave
    \/ SubmitForm
    \/ CancelForm
    \/ \E c \in 1..Len(saveCalls) : SaveLookup(c) \/ SaveWrite(c)
    \/ LoadEmployeeData
    \/ \E k \in 1..Len(adminRecords) : HandleApprove(k) \/ HandleRemand(k)

SpecSheet == InitSheet /\ [][NextSheet]_vars

----------------------------------------------------------------------------
(* The summary cards: component MonthlySummary on the dashboard and the    *)
(* totals of the admin's attendance page, rendered from the records each   *)
(* page holds.                                                             *)

\* records.reduce((sum, record) => sum + record[field], 0)
RECURSIVE reduceSum(_, _)
reduceSum(records, field) ==
    IF records = <<>> THEN 0
    ELSE reduceSum(SubSeq(records, 1, Len(records) - 1), field)
         + records[Len(records)][field]

\* a variant without the filter: the records of every status are added up
MonthlySummaryOfAll(hourlyWage, records) ==
    LET totalWorkMinutes == reduceSum(records, "computed_work_min")
        totalOvertimeMinutes == reduceSum(records, "computed_overtime_min")
        totalNightMinutes == reduceSum(records, "computed_night_min")
    IN  [totalWorkMinutes |-> totalWorkMinutes,
         totalOvertimeMinutes |-> totalOvertimeMinutes,
         totalNightMinutes |-> totalNightMinutes,
         estimatedSalary |-> calculateEstimatedSalary(totalWorkMinutes,
                                 totalOvertimeMinutes, totalNightMinutes, hourlyWage)]

\* MonthlySummary({ user, attendanceRecords }): the approved records are
\* filtered out once and reduced three times
MonthlySummary(hourlyWage, records) ==
    LET approvedRecords == SelectSeq(records, LAMBDA record : record.status = "approved")
        totalWorkMinutes == reduceSum(approvedRecords, "computed_work_min")
        totalOvertimeMinutes == reduceSum(approvedRecords, "computed_overtime_min")
        totalNightMinutes == reduceSum(approvedRecords, "computed_night_min")
    IN  [totalWorkMinutes |-> totalWorkMinutes,
         totalOvertimeMinutes |-> totalOvertimeMinutes,
         totalNightMinutes |-> totalNightMinutes,
         estimatedSalary |-> calculateEstimatedSalary(totalWorkMinutes,
                                 totalOvertimeMinutes, totalNightMinutes, hourlyWage)]

\* EmployeeAttendancePage: each total filters the approved records itself
EmployeePageTotals(hourlyWage, records) ==
    LET totalWorkMinutes ==
            reduceSum(SelectSeq(records, LAMBDA r : r.status = "approved"),
                      "computed_work_min")
        totalOvertimeMinutes ==
            reduceSum(SelectSeq(records, LAMBDA r : r.status = "approved"),
                      "computed_overtime_min")
        totalNightMinutes ==
            reduceSum(SelectSeq(records, LAMBDA r : r.status = "approved"),
                      "computed_night_min")
    IN  [totalWorkMinutes |-> totalWorkMinutes,
         totalOvertimeMinutes |-> totalOvertimeMinutes,
         totalNightMinutes |-> totalNightMinutes,
         estimatedSalary |-> calculateEstimatedSalary(totalWorkMinutes,
                                 totalOvertimeMinutes, totalNightMinutes, hourlyWage)]

\* the render of both pages
Rendered(dashboardRecords, pageRecords) ==
    [dashboard |-> MonthlySummary(EmployeeWage, dashboardRecords),
     admin |-> EmployeePageTotals(EmployeeWage, pageRecords)]

\* the records the cards are given: any status, the computed fields of a
\* default day or of a long day into the night
SummaryRecordSet ==
    {[status |-> st,
      computed_work_min |-> m[1],
      computed_overtime_min |-> m[2],
      computed_night_min |-> m[3]] :
        st \in Statuses, m \in {<<480, 0, 0>>, <<765, 285, 75>>}}

InitSummary ==
    /\ attendanceRecords \in SeqsUpTo(SummaryRecordSet, MaxSummaryRecords)
    /\ adminRecords \in SeqsUpTo(SummaryRecordSet, MaxSummaryRecords - Len(attendanceRecords))
    /\ summaryShown = Rendered(attendanceRecords, adminRecords)
    /\ attendance_records = <<>>
    /\ loadPending = FALSE
    /\ selectedDate = NoDate
    /\ isModalOpen = FALSE
    /\ formValues = DefaultValues
    /\ computedValues = NoComputed
    /\ saveCalls = <<>>
    /\ savesStarted = 0
    /\ NoAuth
    /\ NoRest
    /\ workSpans = <<>>
    /\ breaks = <<>>
    /\ pc = "ready"
    /\ stats = NoStats
    /\ salaryArgs = NoSalaryArgs
    /\ estimatedSalary = NoSalary
    /\ activation = [c \in CallSites |-> IdleActivation(NoArgs)]
    /\ returned = {}

UnchangedBySummary ==
    UNCHANGED <<workSpans, breaks, pc, stats, salaryArgs, estimatedSalary,
                activation, returned, attendance_records, loadPending, selectedDate,
                isModalOpen, formValues, computedValues, saveCalls, savesStarted,
                authVars, restVars>>

\* the lists that differ from records in one record: one more, one less, or
\* one changed
OneRecordAdded(records) ==
    {SubSeq(records, 1, k) \o <<r>> \o SubSeq(records, k + 1, Len(records)) :
        k \in 0..Len(records), r \in SummaryRecordSet}
OneRecordRemoved(records) == {RemoveAt(records, k) : k \in 1..Len(records)}
OneRecordChanged(records) ==
    {[records EXCEPT ![k] = r] : k \in 1..Len(records), r \in SummaryRecordSet}

\* setAttendanceRecords(records) on the dashboard with a list that has one
\* record more, and the render that follows
DashboardRecordAdded ==
    /\ Len(attendanceRecords) + Len(adminRecords) < MaxSummaryRecords
    /\ attendanceRecords' \in OneRecordAdded(attendanceRecords)
    /\ UNCHANGED adminRecords
    /\ summaryShown' = Rendered(attendanceRecords', adminRecords')
    /\ UnchangedBySummary

\* the same with a list that has a record less or a record changed
DashboardRecordsSet ==
    /\ attendanceRecords' \in
           OneRecordRemoved(attendanceRecords) \cup OneRecordChanged(attendanceRecords)
    /\ UNCHANGED adminRecords
    /\ summaryShown' = Rendered(attendanceRecords', adminRecords')
    /\ UnchangedBySummary

\* setAttendanceRecords(records) on the admin page, and the render
PageRecordAdded ==
    /\ Len(attendanceRecords) + Len(adminRecords) < MaxSummaryRecords
    /\ adminRecords' \in OneRecordAdded(adminRecords)
    /\ UNCHANGED attendanceRecords
    /\ summaryShown' = Rendered(attendanceRecords', adminRecords')
    /\ UnchangedBySummary

PageRecordsSet ==
    /\ adminRecords' \in OneRecordRemoved(adminRecords) \cup OneRecordChanged(adminRecords)
    /\ UNCHANGED attendanceRecords
    /\ summaryShown' = Rendered(attendanceRecords', adminRecords')
    /\ UnchangedBySummary

NextSummary ==
    \/ DashboardRecordAdded
    \/ DashboardRecordsSet
    \/ PageRecordAdded
    \/ PageRecordsSet

SpecSummary == InitSummary /\ [][NextSummary]_vars

----------------------------------------------------------------------------
(* Login: authenticate and authenticateByEmployeeId of lib/storage.ts *)

\* what is typed into the login form
TypedEmails == {"yamada@example.com", "sato@example.com", "admin@example.com",
                "nobody@example.com"}
TypedEmployeeIds == {"E001", "E002", "A001", "E999"}
TypedPasswords == {"user123", "fkjahdiojFJ209u", "wrong", ""}

\* select ... eq(email) .single(): the user's id, NoUser on the error of no row
getUserByEmail(email) ==
    IF \E u \in users : u.email = email
    THEN (CHOOSE u \in users : u.email = email).id
    ELSE NoUser

\* select ... eq(employee_id) .single()
getUserByEmployeeId(employeeId) ==
    IF \E u \in users : u.employee_id = employeeId
    THEN (CHOOSE u \in users : u.employee_id = employeeId).id
    ELSE NoUser

UserOf(id) == CHOOSE u \in users : u.id = id

\* a variant that lets every password pass
PasswordPassesAlways(id, password) == TRUE

\* !user.password || user.password === password
PasswordPasses(id, password) ==
    \/ UserOf(id).password = NoPassword
    \/ UserOf(id).password = ""
    \/ UserOf(id).password = password

\* if (user && (...)) { setCurrentUser(user); return user } return null
\* setCurrentUser stores nothing where there is no window and when setItem
\* throws: stored tells which
AuthOutcome(fn, key, id, password, stored) ==
    IF id # NoUser /\ PasswordPasses(id, password)
    THEN /\ authCall' = [fn |-> fn, key |-> key, password |-> password, returned |-> id]
         /\ currentUser' = IF stored THEN id ELSE currentUser
    ELSE /\ authCall' = [fn |-> fn, key |-> key, password |-> password,
                         returned |-> NoUser]
         /\ UNCHANGED currentUser

UnchangedByAuth ==
    UNCHANGED <<workSpans, breaks, pc, stats, salaryArgs, estimatedSalary,
                activation, returned, sheetVars, restVars>>

InitAuth ==
    /\ currentUser \in {NoUser} \cup {u.id : u \in users}
    /\ authCall = NoAuthCall
    /\ NoRest
    /\ NoSheet
    /\ workSpans = <<>>
    /\ breaks = <<>>
    /\ pc = "ready"
    /\ stats = NoStats
    /\ salaryArgs = NoSalaryArgs
    /\ estimatedSalary = NoSalary
    /\ activation = [c \in CallSites |-> IdleActivation(NoArgs)]
    /\ returned = {}

authenticate(email, password) ==
    /\ \E stored \in BOOLEAN :
           AuthOutcome("authenticate", email, getUserByEmail(email), password, stored)
    /\ UnchangedByAuth

authenticateByEmployeeId(employeeId, password) ==
    /\ \E stored \in BOOLEAN :
           AuthOutcome("authenticateByEmployeeId", employeeId,
                       getUserByEmployeeId(employeeId), password, stored)
    /\ UnchangedByAuth

NextAuth ==
    \/ \E email \in TypedEmails : \E password \in TypedPasswords :
           authenticate(email, password)
    \/ \E employeeId \in TypedEmployeeIds : \E password \in TypedPasswords :
           authenticateByEmployeeId(employeeId, password)

SpecAuth == InitAuth /\ [][NextAuth]_vars

----------------------------------------------------------------------------
(* The single-shift helpers of utils/time-calculation.ts, which work on    *)
(* Date values: calculateMinutesBetween, calculateWorkMinutes,             *)
(* calculateNightMinutes and calculateNightMinutesFromSpans.  A Date is    *)
(* the number of minutes since 2000-01-01 00:00.                           *)

T0500 == <<"0", "5", ":", "0", "0">>

\* the HH:mm strings the helpers are called with
HelperTimes == {T0000, T0500, T2200, T2315}

MinutesPerDay == 1440

\* parse(time, 'HH:mm', parse(baseDate, 'yyyy-MM-dd', ...)) for an HH:mm
\* string; baseDay is 0 for 2000-01-01 and 1 for 2000-01-02
parseTimeString(time, baseDay) ==
    baseDay * MinutesPerDay
        + NumberOf(SubSeq(time, 1, 2)) * 60 + NumberOf(SubSeq(time, 4, 5))

isBefore(date, dateToCompare) == date < dateToCompare
isAfter(date, dateToCompare) == date > dateToCompare
isWithinInterval(date, start, end) == start <= date /\ date <= end
differenceInMinutes(dateLeft, dateRight) == dateLeft - dateRight

\* a variant that leaves the end on the day of the start
calculateMinutesBetweenSameDay(startTime, endTime) ==
    differenceInMinutes(parseTimeString(endTime, 0), parseTimeString(startTime, 0))

calculateMinutesBetween(startTime, endTime) ==
    LET start == parseTimeString(startTime, 0)
        end == IF isBefore(parseTimeString(endTime, 0), start)
               THEN parseTimeString(endTime, 1)
               ELSE parseTimeString(endTime, 0)
    IN  differenceInMinutes(end, start)

RECURSIVE calculateTotalBreakMinutes(_)
calculateTotalBreakMinutes(brks) ==
    IF brks = <<>> THEN 0
    ELSE calculateTotalBreakMinutes(SubSeq(brks, 1, Len(brks) - 1))
         + calculateMinutesBetween(brks[Len(brks)].start, brks[Len(brks)].end)

calculateWorkMinutes(startTime, endTime, brks) ==
    Max(0, calculateMinutesBetween(startTime, endTime)
           - calculateTotalBreakMinutes(brks))

nightStart == parseTimeString(T2200, 0)
nightEnd == parseTimeString(T0500, 1)
nextDayStart == parseTimeString(T0000, 1)

\* the minutes calculateNightMinutes counts before it looks at the breaks
nightMinutesOfShift(startTime, endTime) ==
    LET start == parseTimeString(startTime, 0)
        end == IF isBefore(parseTimeString(endTime, 0), start)
               THEN parseTimeString(endTime, 1)
               ELSE parseTimeString(endTime, 0)
        workStart == start
        workEnd == end
        \* the part commented as 22:00 to 24:00
        periodStart1 == IF isAfter(workStart, nightStart) THEN workStart ELSE nightStart
        periodEnd1 == workEnd
        first == IF isAfter(workEnd, nightStart) /\ isAfter(periodEnd1, periodStart1)
                 THEN differenceInMinutes(periodEnd1, periodStart1) ELSE 0
        \* the part commented as 00:00 to 05:00 of the next day
        periodStart2 == IF isAfter(workStart, nextDayStart) THEN workStart
                        ELSE nextDayStart
        periodEnd2 == IF isBefore(workEnd, nightEnd) THEN workEnd ELSE nightEnd
        second == IF isAfter(workEnd, nextDayStart) /\ isAfter(periodEnd2, periodStart2)
                  THEN differenceInMinutes(periodEnd2, periodStart2) ELSE 0
    IN  IF isAfter(end, nightStart) \/ isBefore(start, nightEnd)
        THEN first + second
        ELSE 0

\* the break test of calculateNightMinutes reads nextDayStart, which is
\* declared inside the block above it and is not in scope here: the read
\* raises a ReferenceError.  It is reached when the first isWithinInterval
\* of either line is false.
breakTestRaises(brk) ==
    LET breakStart == parseTimeString(brk.start, 0)
        breakEnd == parseTimeString(brk.end, 0)
    IN  \/ ~isWithinInterval(breakStart, nightStart, nightEnd)
        \/ ~isWithinInterval(breakEnd, nightStart, nightEnd)

calculateNightMinutesThrows(startTime, endTime, brks) ==
    \E j \in 1..Len(brks) : breakTestRaises(brks[j])

\* the break is counted when its start and its end both lie in the night
breakInNight(brk) ==
    LET breakStart == parseTimeString(brk.start, 0)
        breakEnd == parseTimeString(brk.end, 0)
    IN  /\ \/ isWithinInterval(breakStart, nightStart, nightEnd)
           \/ isWithinInterval(breakStart, nextDayStart, nightEnd)
        /\ \/ isWithinInterval(breakEnd, nightStart, nightEnd)
           \/ isWithinInterval(breakEnd, nextDayStart, nightEnd)

RECURSIVE breakMinutesInNight(_)
breakMinutesInNight(brks) ==
    IF brks = <<>> THEN 0
    ELSE breakMinutesInNight(SubSeq(brks, 1, Len(brks) - 1))
         + (IF breakInNight(brks[Len(brks)])
            THEN calculateMinutesBetween(brks[Len(brks)].start, brks[Len(brks)].end)
            ELSE 0)

\* the value of a call that does not raise
calculateNightMinutes(startTime, endTime, brks) ==
    Max(0, nightMinutesOfShift(startTime, endTime) - breakMinutesInNight(brks))

RECURSIVE totalNightMinutesOfSpans(_)
totalNightMinutesOfSpans(spans) ==
    IF spans = <<>> THEN 0
    ELSE totalNightMinutesOfSpans(SubSeq(spans, 1, Len(spans) - 1))
         + calculateNightMinutes(spans[Len(spans)].start_time,
                                 spans[Len(spans)].end_time, <<>>)

calculateNightMinutesFromSpans(spans, brks) ==
    Max(0, totalNightMinutesOfSpans(spans) - breakMinutesInNight(brks))

HelperSpanSet == [start_time : HelperTimes, end_time : HelperTimes]
HelperBreakSet == [start : HelperTimes, end : HelperTimes]

\* the calls: the two-time function with one span, the single-shift
\* functions with one span and breaks, the span-list function with both
HelperCalls ==
    {[fn |-> "calculateMinutesBetween", workSpans |-> <<span>>, breaks |-> <<>>] :
         span \in HelperSpanSet}
    \cup {[fn |-> fn, workSpans |-> <<span>>, breaks |-> brks] :
              fn \in {"calculateWorkMinutes", "calculateNightMinutes"},
              span \in HelperSpanSet,
              brks \in SeqsUpTo(HelperBreakSet, MaxHelperIntervals - 1)}
    \cup UNION {{[fn |-> "calculateNightMinutesFromSpans", workSpans |-> spans,
                  breaks |-> brks] :
                     brks \in SeqsUpTo(HelperBreakSet, MaxHelperIntervals - Len(spans))} :
                spans \in SeqsUpTo(HelperSpanSet, MaxHelperIntervals)}

UnchangedByHelpers ==
    UNCHANGED <<workSpans, breaks, pc, stats, salaryArgs, estimatedSalary,
                activation, returned, sheetVars, authVars, helperCall, queryVars,
                pageVars>>

InitHelpers ==
    /\ helperCall \in HelperCalls
    /\ helperResult = NoResult
    /\ NoQuery
    /\ NoPages
    /\ NoSheet
    /\ NoAuth
    /\ workSpans = <<>>
    /\ breaks = <<>>
    /\ pc = "ready"
    /\ stats = NoStats
    /\ salaryArgs = NoSalaryArgs
    /\ estimatedSalary = NoSalary
    /\ activation = [c \in CallSites |-> IdleActivation(NoArgs)]
    /\ returned = {}

StartTimeOf(call) == call.workSpans[1].start_time
EndTimeOf(call) == call.workSpans[1].end_time

CallCalculateMinutesBetween ==
    /\ helperResult.at = "ready"
    /\ helperCall.fn = "calculateMinutesBetween"
    /\ helperResult' =
           [at |-> "done",
            value |-> calculateMinutesBetween(StartTimeOf(helperCall),
                                              EndTimeOf(helperCall))]
    /\ UnchangedByHelpers

CallCalculateWorkMinutes ==
    /\ helperResult.at = "ready"
    /\ helperCall.fn = "calculateWorkMinutes"
    /\ helperResult' =
           [at |-> "done",
            value |-> calculateWorkMinutes(StartTimeOf(helperCall),
                                           EndTimeOf(helperCall), helperCall.breaks)]
    /\ UnchangedByHelpers

CallCalculateNightMinutes ==
    /\ helperResult.at = "ready"
    /\ helperCall.fn = "calculateNightMinutes"
    /\ helperResult' =
           IF calculateNightMinutesThrows(StartTimeOf(helperCall),
                                          EndTimeOf(helperCall), helperCall.breaks)
           THEN [at |-> "raised", value |-> 0]
           ELSE [at |-> "done",
                 value |-> calculateNightMinutes(StartTimeOf(helperCall),
                                                 EndTimeOf(helperCall),
                                                 helperCall.breaks)]
    /\ UnchangedByHelpers

CallCalculateNightMinutesFromSpans ==
    /\ helperResult.at = "ready"
    /\ helperCall.fn = "calculateNightMinutesFromSpans"
    /\ helperResult' =
           [at |-> "done",
            value |-> calculateNightMinutesFromSpans(helperCall.workSpans,
                                                     helperCall.breaks)]
    /\ UnchangedByHelpers

NextHelpers ==
    \/ CallCalculateMinutesBetween
    \/ CallCalculateWorkMinutes
    \/ CallCalculateNightMinutes
    \/ CallCalculateNightMinutesFromSpans

SpecHelpers == InitHelpers /\ [][NextHelpers]_vars

----------------------------------------------------------------------------
(* The month query: getAttendanceRecordsByUserIdAndMonth of lib/storage.ts *)
(* on a table whose date column is TEXT.  A date is the sequence of its    *)
(* characters, compared the way text is compared.                          *)

D20240215 == <<"2", "0", "2", "4", "-", "0", "2", "-", "1", "5">>
D20250131 == <<"2", "0", "2", "5", "-", "0", "1", "-", "3", "1">>
D20250201 == <<"2", "0", "2", "5", "-", "0", "2", "-", "0", "1">>
D20250228 == <<"2", "0", "2", "5", "-", "0", "2", "-", "2", "8">>
D20250301 == <<"2", "0", "2", "5", "-", "0", "3", "-", "0", "1">>
D20251231 == <<"2", "0", "2", "5", "-", "1", "2", "-", "3", "1">>

\* the dates of the stored records (YYYY-MM-DD, calendar dates)
QueryDates == {D20240215, D20250131, D20250201, D20250228, D20250301, D20251231}
QueryUsers == {"E001", "E002"}
QueryYears == {2024, 2025}
QueryMonths == 1..12

\* the rank of a character among '-' and the digits
CharRank(c) == IF c = "-" THEN 0 ELSE 1 + DigitValue(c)

\* a <= b as text
RECURSIVE TextLessEq(_, _)
TextLessEq(a, b) ==
    IF a = <<>> THEN TRUE
    ELSE IF b = <<>> THEN FALSE
    ELSE IF CharRank(Head(a)) # CharRank(Head(b))
         THEN CharRank(Head(a)) < CharRank(Head(b))
    ELSE TextLessEq(Tail(a), Tail(b))

DigitChar(d) ==
    CASE d = 0 -> "0" [] d = 1 -> "1" [] d = 2 -> "2" [] d = 3 -> "3"
      [] d = 4 -> "4" [] d = 5 -> "5" [] d = 6 -> "6" [] d = 7 -> "7"
      [] d = 8 -> "8" [] d = 9 -> "9"

\* Number.prototype.toString() of a natural number
RECURSIVE NumberToString(_)
NumberToString(n) ==
    IF n < 10 THEN <<DigitChar(n)>>
    ELSE NumberToString(n \div 10) \o <<DigitChar(n % 10)>>

\* String.prototype.padStart(2, '0')
padStart2(str) == IF Len(str) >= 2 THEN str ELSE <<"0">> \o str

monthStrOf(month) == padStart2(NumberToString(month))
startDateOf(year, month) ==
    NumberToString(year) \o <<"-">> \o monthStrOf(month) \o <<"-", "0", "1">>
endDateOf(year, month) ==
    NumberToString(year) \o <<"-">> \o monthStrOf(month) \o <<"-", "3", "1">>

\* a variant without the lower end of the range
dateUpTo(date, startDate, endDate) == TextLessEq(date, endDate)

\* .gte('date', startDate).lte('date', endDate)
dateInRange(date, startDate, endDate) ==
    TextLessEq(startDate, date) /\ TextLessEq(date, endDate)

\* the rows the query selects, as the set of their ids
selectedByMonth(table, userId, year, month) ==
    {id \in 1..Len(table) :
         /\ table[id].user_id = userId
         /\ dateInRange(table[id].date, startDateOf(year, month),
                        endDateOf(year, month))}

\* .order('date', ascending): every listing of the selected rows in which no
\* row comes before one of an earlier date
queryOrderings(table, ids) ==
    {order \in [1..Cardinality(ids) -> ids] :
         /\ \A i, j \in 1..Cardinality(ids) : i # j => order[i] # order[j]
         /\ \A i, j \in 1..Cardinality(ids) :
                i < j => TextLessEq(table[order[i]].date, table[order[j]].date)}

QueryRowSet == [user_id : QueryUsers, date : QueryDates]

UnchangedByQuery ==
    UNCHANGED <<workSpans, breaks, pc, stats, salaryArgs, estimatedSalary,
                activation, returned, sheetVars, authVars, helperVars, queryCall,
                pageVars>>

InitQuery ==
    /\ queryCall \in [table : SeqsUpTo(QueryRowSet, MaxQueryRows), userId : QueryUsers,
                      year : QueryYears, month : QueryMonths]
    /\ queryResult = NoQueryResult
    /\ NoHelper
    /\ NoPages
    /\ NoSheet
    /\ NoAuth
    /\ workSpans = <<>>
    /\ breaks = <<>>
    /\ pc = "ready"
    /\ stats = NoStats
    /\ salaryArgs = NoSalaryArgs
    /\ estimatedSalary = NoSalary
    /\ activation = [c \in CallSites |-> IdleActivation(NoArgs)]
    /\ returned = {}

\* the backend answers without error: data holds the rows in date order
CallMonthQuery ==
    /\ queryResult.at = "ready"
    /\ \E order \in queryOrderings(queryCall.table,
                                   selectedByMonth(queryCall.table, queryCall.userId,
                                                   queryCall.year, queryCall.month)) :
           queryResult' = [at |-> "done", data |-> order]
    /\ UnchangedByQuery

NextQuery == CallMonthQuery

SpecQuery == InitQuery /\ [][NextQuery]_vars

----------------------------------------------------------------------------
(* The page guard: the useAuth hook, as the four guarded pages call it.    *)

\* the pages that call useAuth, and the role each of them requires
GuardedRoutes == {"/dashboard", "/admin/dashboard", "/admin/employees",
                  "/admin/attendance"}
requiredRoleOf(r) == IF r = "/dashboard" THEN "user" ELSE "admin"

\* the role of the user stored in the session
RoleOf(id) == (CHOOSE u \in users : u.id = id).role

\* a variant that lets every role pass
roleAllowedAlways(requiredRole, role) == TRUE

\* the negation of: requiredRole && currentUser.role !== requiredRole
roleAllowed(requiredRole, role) == role = requiredRole

UnchangedByGuard ==
    UNCHANGED <<workSpans, breaks, pc, stats, salaryArgs, estimatedSalary,
                activation, returned, sheetVars, authCall, helperVars, queryVars,
                employeesVars, monthVars>>

\* the browser shows the login page or a guarded page just mounted, with or
\* without a session
InitGuard ==
    /\ route \in {"/login"} \cup GuardedRoutes
    /\ guard = FreshGuard
    /\ currentUser \in {NoUser} \cup {u.id : u \in users}
    /\ authCall = NoAuthCall
    /\ NoEmployees
    /\ NoMonths
    /\ NoHelper
    /\ NoQuery
    /\ NoSheet
    /\ workSpans = <<>>
    /\ breaks = <<>>
    /\ pc = "ready"
    /\ stats = NoStats
    /\ salaryArgs = NoSalaryArgs
    /\ estimatedSalary = NoSalary
    /\ activation = [c \in CallSites |-> IdleActivation(NoArgs)]
    /\ returned = {}

\* the effect of useAuth, which runs once after the page has mounted
GuardEffect ==
    /\ route \in GuardedRoutes
    /\ ~guard.effectRan
    /\ guard' =
           IF currentUser = NoUser
           THEN [guard EXCEPT !.effectRan = TRUE, !.seen = NoUser, !.push = "/login"]
           ELSE IF ~roleAllowed(requiredRoleOf(route), RoleOf(currentUser))
           THEN [guard EXCEPT !.effectRan = TRUE, !.seen = currentUser,
                              !.push = IF RoleOf(currentUser) = "admin"
                                       THEN "/admin/dashboard" ELSE "/dashboard"]
           ELSE [guard EXCEPT !.effectRan = TRUE, !.seen = currentUser,
                              !.user = currentUser, !.isLoading = FALSE]
    /\ UNCHANGED <<route, currentUser>>
    /\ UnchangedByGuard

\* router.push takes effect: another route mounts its page anew; a push to
\* the route already shown mounts nothing, the page keeps its state
Navigate ==
    /\ guard.push # NoPush
    /\ IF guard.push = route
       THEN /\ guard' = [guard EXCEPT !.push = NoPush]
            /\ UNCHANGED route
       ELSE /\ route' = guard.push
            /\ guard' = FreshGuard
    /\ UNCHANGED currentUser
    /\ UnchangedByGuard

\* logout of the hook, from a page that shows its user
Logout ==
    /\ route \in GuardedRoutes
    /\ guard.user # NoUser
    /\ guard.push = NoPush
    /\ currentUser' = NoUser
    /\ guard' = [guard EXCEPT !.push = "/login"]
    /\ UNCHANGED route
    /\ UnchangedByGuard

\* a successful login on the login page stores the user; a guarded page is
\* opened after it
LoginAndOpen(id, target) ==
    /\ route = "/login"
    /\ currentUser' = id
    /\ route' = target
    /\ guard' = FreshGuard
    /\ UnchangedByGuard

\* the browser is sent to a guarded page by its address
OpenPage(target) ==
    /\ guard.push = NoPush
    /\ route # target
    /\ route' = target
    /\ guard' = FreshGuard
    /\ UNCHANGED currentUser
    /\ UnchangedByGuard

\* another tab of the browser logs in or out: the session is shared
OtherTabSession(id) ==
    /\ currentUser # id
    /\ currentUser' = id
    /\ UNCHANGED <<route, guard>>
    /\ UnchangedByGuard

NextGuard ==
    \/ \E id \in {NoUser} \cup {u.id : u \in users} : OtherTabSession(id)
    \/ GuardEffect
    \/ Navigate
    \/ Logout
    \/ \E u \in users : \E target \in GuardedRoutes : LoginAndOpen(u.id, target)
    \/ \E target \in GuardedRoutes : OpenPage(target)

SpecGuard == InitGuard /\ [][NextGuard]_vars

----------------------------------------------------------------------------
(* The employee management page: its list, and the requests its handlers   *)
(* send.  The handlers call createUser, updateUser and deleteUser without  *)
(* awaiting them and call loadEmployees right after, so the write and the  *)
(* read are with the backend at the same time.                             *)

\* the rows the page finds: an employee as the page knows employees (role
\* 'user') and the admin
SeedUsers ==
    {[id |-> 1, employee_id |-> "E010", name |-> "n1", role |-> "user"],
     [id |-> 2, employee_id |-> "A001", name |-> "n0", role |-> "admin"]}

\* what the form is filled with
FormNames == {"n1", "n2"}
FormEmployeeIds == {"E010", "E011"}

\* allUsers.filter((u) => u.role === 'user')
filterEmployees(allUsers) == {u \in allUsers : u.role = "user"}

\* gen_random_uuid(): an id no row has had; request n is the only one that
\* gets this one
NewIdFor(n) == 10 + n

\* the number of the next request
NextRequest == 2 * actionsStarted + 1

\* a request: its number, what it asks, how far it is, and the action of
\* the handler that sent it (after: the kind of the write, with id and data)
WriteRequest(n, kind, id, data) ==
    [n |-> n, kind |-> kind, at |-> "sent", after |-> kind, id |-> id, data |-> data,
     answer |-> {}]
SelectRequest(n, after, id, data) ==
    [n |-> n, kind |-> "select", at |-> "sent", after |-> after, id |-> id,
     data |-> data, answer |-> {}]

NoFormData == [name |-> "", employee_id |-> ""]

UnchangedByEmployees ==
    UNCHANGED <<workSpans, breaks, pc, stats, salaryArgs, estimatedSalary,
                activation, returned, sheetVars, authVars, helperVars, queryVars,
                guardVars, monthVars>>

\* the page has mounted: the effect's loadEmployees is with the backend
InitEmployees ==
    /\ usersTable = SeedUsers
    /\ employees = {}
    /\ requests = {SelectRequest(0, "mount", 0, NoFormData)}
    /\ actionsStarted = 0
    /\ NoGuard
    /\ NoMonths
    /\ NoHelper
    /\ NoQuery
    /\ NoSheet
    /\ NoAuth
    /\ workSpans = <<>>
    /\ breaks = <<>>
    /\ pc = "ready"
    /\ stats = NoStats
    /\ salaryArgs = NoSalaryArgs
    /\ estimatedSalary = NoSalary
    /\ activation = [c \in CallSites |-> IdleActivation(NoArgs)]
    /\ returned = {}

\* a handler: the write is sent, then loadEmployees sends its read
SendWriteAndLoad(kind, id, data) ==
    /\ actionsStarted < MaxEmployeeActions
    /\ actionsStarted' = actionsStarted + 1
    /\ requests' = requests \cup {WriteRequest(NextRequest, kind, id, data),
                                  SelectRequest(NextRequest + 1, kind, id, data)}
    /\ UNCHANGED <<usersTable, employees>>
    /\ UnchangedByEmployees

\* onSubmit with no editingEmployee; the admin gives a number no employee
\* has and none is being given
SubmitNewEmployee(data) ==
    /\ \A u \in usersTable : u.employee_id # data.employee_id
    /\ \A r \in requests : r.data.employee_id # data.employee_id
    /\ SendWriteAndLoad("insert", 0, data)

\* onSubmit with the editingEmployee, a row of the list; the form was
\* reset to the row and the admin has changed the name
SubmitEditedEmployee(employee, data) ==
    /\ employee \in employees
    /\ data.employee_id = employee.employee_id
    /\ SendWriteAndLoad("update", employee.id, data)

\* handleDeleteEmployee for a row of the list, the confirm accepted
handleDeleteEmployee(employee) ==
    /\ employee \in employees
    /\ SendWriteAndLoad("delete", employee.id, NoFormData)

\* the table after the backend has done a write; an insert or update that
\* would repeat an employee_id is refused (UNIQUE)
TableAfter(table, r) ==
    LET taken == \E u \in table : u.employee_id = r.data.employee_id /\ u.id # r.id
    IN  CASE r.kind = "insert" ->
                 IF taken THEN table
                 ELSE table \cup {[id |-> NewIdFor(r.n),
                                   employee_id |-> r.data.employee_id,
                                   name |-> r.data.name, role |-> "user"]}
          [] r.kind = "update" ->
                 IF taken THEN table
                 ELSE {IF u.id = r.id
                       THEN [u EXCEPT !.name = r.data.name,
                                      !.employee_id = r.data.employee_id]
                       ELSE u : u \in table}
          [] r.kind = "delete" -> {u \in table : u.id # r.id}

\* the backend does a write (createUser, updateUser, deleteUser complete)
BackendWrites(r) ==
    /\ r \in requests
    /\ r.kind # "select"
    /\ usersTable' = TableAfter(usersTable, r)
    /\ requests' = requests \ {r}
    /\ UNCHANGED <<employees, actionsStarted>>
    /\ UnchangedByEmployees

\* the backend reads the table for getAllUsers
BackendReads(r) ==
    /\ r \in requests
    /\ r.kind = "select"
    /\ r.at = "sent"
    /\ requests' = (requests \ {r}) \cup {[r EXCEPT !.at = "answered",
                                                   !.answer = usersTable]}
    /\ UNCHANGED <<usersTable, employees, actionsStarted>>
    /\ UnchangedByEmployees

\* loadEmployees goes on after its await: setEmployees
LoadEmployeesCompletes(r) ==
    /\ r \in requests
    /\ r.kind = "select"
    /\ r.at = "answered"
    /\ employees' = filterEmployees(r.answer)
    /\ requests' = requests \ {r}
    /\ UNCHANGED <<usersTable, actionsStarted>>
    /\ UnchangedByEmployees

FormData == [name : FormNames, employee_id : FormEmployeeIds]

NextEmployees ==
    \/ \E data \in FormData : SubmitNewEmployee(data)
    \/ \E employee \in employees : \E data \in FormData :
           SubmitEditedEmployee(employee, data)
    \/ \E employee \in employees : handleDeleteEmployee(employee)
    \/ \E r \in requests : BackendWrites(r)
    \/ \E r \in requests : BackendReads(r)
    \/ \E r \in requests : LoadEmployeesCompletes(r)

SpecEmployees == InitEmployees /\ [][NextEmployees]_vars

----------------------------------------------------------------------------
(* The dashboard's month navigation: currentYear / currentMonth, the loads *)
(* that the effect and handleSaveAttendance start, and their answers,      *)
(* which the page takes in the order they arrive.                          *)

\* the years the calendar can reach, and a table with one record in every
\* month of them
MonthYears == 2024..2026
StoredAtFirst == {[year |-> y, month |-> m, n |-> 0] : y \in MonthYears, m \in 1..12}

\* the rows the month query answers with
recordsOfMonth(table, year, month) ==
    {row \in table : row.year = year /\ row.month = month}

\* the number of the next request
NextMonthRequest == monthEvents.clicks + 2 * monthEvents.saves + 1

LoadRequest(n, year, month) ==
    [n |-> n, kind |-> "load", at |-> "sent", year |-> year, month |-> month,
     answer |-> {}]
SaveRequest(n, year, month) ==
    [n |-> n, kind |-> "save", at |-> "sent", year |-> year, month |-> month,
     answer |-> {}]

UnchangedByMonths ==
    UNCHANGED <<workSpans, breaks, pc, stats, salaryArgs, estimatedSalary,
                activation, returned, sheetVars, authVars, helperVars, queryVars,
                guardVars, employeesVars>>

\* the page has mounted in January or in December: the effect's load of
\* that month is with the backend
InitMonths ==
    /\ \E month \in {1, 12} :
           /\ monthView = [year |-> 2025, month |-> month, records |-> {}]
           /\ monthRequests = {LoadRequest(0, 2025, month)}
    /\ monthTable = StoredAtFirst
    /\ monthEvents = [clicks |-> 0, saves |-> 0]
    /\ NoGuard
    /\ NoEmployees
    /\ NoHelper
    /\ NoQuery
    /\ NoSheet
    /\ NoAuth
    /\ workSpans = <<>>
    /\ breaks = <<>>
    /\ pc = "ready"
    /\ stats = NoStats
    /\ salaryArgs = NoSalaryArgs
    /\ estimatedSalary = NoSalary
    /\ activation = [c \in CallSites |-> IdleActivation(NoArgs)]
    /\ returned = {}

\* the month is set; loadAttendanceRecords is made anew for it and the
\* effect calls it
ShowMonth(year, month) ==
    /\ monthEvents.clicks < MaxMonthClicks
    /\ monthEvents' = [monthEvents EXCEPT !.clicks = @ + 1]
    /\ monthView' = [monthView EXCEPT !.year = year, !.month = month]
    /\ monthRequests' = monthRequests \cup {LoadRequest(NextMonthRequest, year, month)}
    /\ UNCHANGED monthTable
    /\ UnchangedByMonths

handlePreviousMonth ==
    IF monthView.month = 1
    THEN ShowMonth(monthView.year - 1, 12)
    ELSE ShowMonth(monthView.year, monthView.month - 1)

handleNextMonth ==
    IF monthView.month = 12
    THEN ShowMonth(monthView.year + 1, 1)
    ELSE ShowMonth(monthView.year, monthView.month + 1)

\* handleSaveAttendance is called for a date of the month shown; it holds
\* the loadAttendanceRecords of this render, and the form closes
SaveStarts ==
    /\ monthEvents.saves < MaxMonthSaves
    /\ monthEvents' = [monthEvents EXCEPT !.saves = @ + 1]
    /\ monthRequests' = monthRequests
           \cup {SaveRequest(NextMonthRequest, monthView.year, monthView.month)}
    /\ UNCHANGED <<monthView, monthTable>>
    /\ UnchangedByMonths

\* the awaited write is done; handleSaveAttendance calls the
\* loadAttendanceRecords it holds
SaveWritten(r) ==
    /\ r \in monthRequests
    /\ r.kind = "save"
    /\ monthTable' = monthTable \cup {[year |-> r.year, month |-> r.month, n |-> r.n]}
    /\ monthRequests' = (monthRequests \ {r})
           \cup {LoadRequest(r.n + 1, r.year, r.month)}
    /\ UNCHANGED <<monthView, monthEvents>>
    /\ UnchangedByMonths

\* the backend answers a load
LoadAnswered(r) ==
    /\ r \in monthRequests
    /\ r.kind = "load"
    /\ r.at = "sent"
    /\ monthRequests' = (monthRequests \ {r})
           \cup {[r EXCEPT !.at = "answered",
                           !.answer = recordsOfMonth(monthTable, r.year, r.month)]}
    /\ UNCHANGED <<monthView, monthTable, monthEvents>>
    /\ UnchangedByMonths

\* loadAttendanceRecords goes on after its await: setAttendanceRecords
LoadCompletes(r) ==
    /\ r \in monthRequests
    /\ r.kind = "load"
    /\ r.at = "answered"
    /\ monthView' = [monthView EXCEPT !.records = r.answer]
    /\ monthRequests' = monthRequests \ {r}
    /\ UNCHANGED <<monthTable, monthEvents>>
    /\ UnchangedByMonths

NextMonths ==
    \/ handlePreviousMonth
    \/ handleNextMonth
    \/ SaveStarts
    \/ \E r \in monthRequests : SaveWritten(r)
    \/ \E r \in monthRequests : LoadAnswered(r)
    \/ \E r \in monthRequests : LoadCompletes(r)

SpecMonths == InitMonths /\ [][NextMonths]_vars

----------------------------------------------------------------------------
(* What the claims speak of *)

Done == pc = "done"
SalaryDone == pc = "done" /\ estimatedSalary # NoSalary

StartMin(span) == timeToMinutes(span.start_time)
EndMin(span) == timeToMinutes(span.end_time)
BrkStartMin(brk) == timeToMinutes(brk.start)
BrkEndMin(brk) == timeToMinutes(brk.end)

\* what the k-th span adds to the returned totals
WorkAddedBy(k) ==
    stats.workTime - calculateDailyStats(RemoveAt(workSpans, k), breaks).workTime
NightAddedBy(k) ==
    stats.nightTime - calculateDailyStats(RemoveAt(workSpans, k), breaks).nightTime

\* an end at or before the start is an end on the next day
NextDayEnd(start, end) == IF end <= start THEN end + 1440 ELSE end

\* the length of the overlap of [lo, hi] and [from, to]
OverlapLen(lo, hi, from, to) == Max(0, Min(hi, to) - Max(lo, from))

\* the total overlap of [lo, hi] with the breaks as written
RECURSIVE BreaksIn(_, _, _)
BreaksIn(lo, hi, brks) ==
    IF brks = <<>> THEN 0
    ELSE OverlapLen(lo, hi, BrkStartMin(Head(brks)), BrkEndMin(Head(brks)))
         + BreaksIn(lo, hi, Tail(brks))

\* the total overlap of [lo, hi] with the breaks, each resolved over midnight
RECURSIVE NextDayBreaksIn(_, _, _)
NextDayBreaksIn(lo, hi, brks) ==
    IF brks = <<>> THEN 0
    ELSE OverlapLen(lo, hi, BrkStartMin(Head(brks)),
                    NextDayEnd(BrkStartMin(Head(brks)), BrkEndMin(Head(brks))))
         + NextDayBreaksIn(lo, hi, Tail(brks))

----------------------------------------------------------------------------
(* C1: every returned workTime, nightTime and overtime is >= 0, and        *)
(* overtime is max(0, workTime - 480): the 480-minute threshold is applied *)
(* once, to the day's total, not to each span.                             *)
C1_OvertimeOnDailyTotal ==
    Done =>
        /\ stats.workTime >= 0
        /\ stats.nightTime >= 0
        /\ stats.overtime >= 0
        /\ stats.overtime = Max(0, stats.workTime - 480)

\* two spans whose total is over eight hours and whose per-span overtime differs
C1_Witness ==
    /\ Done
    /\ Len(workSpans) = 2
    /\ stats.overtime > 0
    /\ stats.overtime # overtimePerSpan(workSpans, breaks)

(* C2: every span with start < end (one starting at 00:00 included) adds   *)
(* max(0, (end - start) - D) to workTime, D being the sum over the breaks  *)
(* of max(0, min(span end, break end) - max(span start, break start)).     *)
C2_SameDaySpanWork ==
    Done =>
        \A k \in 1..Len(workSpans) :
            LET s == StartMin(workSpans[k])
                e == EndMin(workSpans[k])
            IN  s < e => WorkAddedBy(k) = Max(0, (e - s) - BreaksIn(s, e, breaks))

(* C3: a span whose end is earlier than its start crosses midnight: with   *)
(* no breaks it adds end + 1440 - start worked minutes and                 *)
(* max(0, min(end + 1440, 1740) - max(start, 1320)) night minutes.         *)
C3_MidnightSpan ==
    (Done /\ breaks = <<>>) =>
        \A k \in 1..Len(workSpans) :
            LET s == StartMin(workSpans[k])
                e == EndMin(workSpans[k])
            IN  e < s =>
                    /\ WorkAddedBy(k) = e + 1440 - s
                    /\ NightAddedBy(k) = Max(0, Min(e + 1440, 1740) - Max(s, 1320))

(* C4: every span with start < end adds max(0, N - B) to nightTime, N      *)
(* being max(0, end - max(start, 1320)) and B the overlap of the breaks    *)
(* with that night part; a span ending by 22:00 adds 0.                    *)
C4_SameDaySpanNight ==
    Done =>
        \A k \in 1..Len(workSpans) :
            LET s == StartMin(workSpans[k])
                e == EndMin(workSpans[k])
                n == Max(0, e - Max(s, 1320))
            IN  s < e =>
                    NightAddedBy(k) = Max(0, n - BreaksIn(Max(s, 1320), e, breaks))

(* C5: for all non-negative integer arguments calculateEstimatedSalary     *)
(* returns floor(work/60*wage + overtime/60*wage*0.25 + night/60*wage*0.25)*)
(* that is floor(wage * (4*work + overtime + night) / 240).                *)
C5_SalaryIsExactFloor ==
    SalaryDone =>
        estimatedSalary =
            (salaryArgs.hourlyWage
               * (4 * salaryArgs.totalWorkMinutes + salaryArgs.overtimeMinutes
                  + salaryArgs.nightMinutes)) \div 240

(* C6: a span with start = end adds nothing: the result with it is the     *)
(* result without it, whatever the other spans and breaks are.             *)
C6_ZeroLengthSpan ==
    Done =>
        \A k \in 1..Len(workSpans) :
            workSpans[k].start_time = workSpans[k].end_time =>
                stats = calculateDailyStats(RemoveAt(workSpans, k), breaks)

\* a zero-length span beside a span that counts
C6_Witness ==
    /\ Done
    /\ stats.workTime > 0
    /\ \E k \in 1..Len(workSpans) :
           /\ workSpans[k].start_time = workSpans[k].end_time
           /\ StartMin(workSpans[k]) > 0

\* the break overlaps no span, each taken with its end resolved over midnight
OutsideAllSpans(brk) ==
    \A k \in 1..Len(workSpans) :
        OverlapLen(StartMin(workSpans[k]),
                   NextDayEnd(StartMin(workSpans[k]), EndMin(workSpans[k])),
                   BrkStartMin(brk),
                   NextDayEnd(BrkStartMin(brk), BrkEndMin(brk))) = 0

(* C7: a break that lies outside every span changes nothing: the result    *)
(* with it is the result without it.                                       *)
C7_BreakOutsideSpans ==
    Done =>
        \A j \in 1..Len(breaks) :
            OutsideAllSpans(breaks[j]) =>
                stats = calculateDailyStats(workSpans, RemoveAt(breaks, j))

\* a break of positive length outside a span that counts
C7_Witness ==
    /\ Done
    /\ stats.workTime > 0
    /\ \E j \in 1..Len(breaks) :
           /\ BrkStartMin(breaks[j]) < BrkEndMin(breaks[j])
           /\ OutsideAllSpans(breaks[j])

(* C8: a break whose end is before its start is resolved as end + 1440,    *)
(* and its overlap with each span and with the night part of each span is  *)
(* deducted like any other break's.  Stated for the spans the function     *)
(* counts (0 < start < end) and breaks of non-zero length.                 *)
C8_MidnightBreak ==
    (Done /\ \A j \in 1..Len(breaks) : BrkStartMin(breaks[j]) # BrkEndMin(breaks[j])) =>
        \A k \in 1..Len(workSpans) :
            LET s == StartMin(workSpans[k])
                e == EndMin(workSpans[k])
                ns == Max(s, 1320)
            IN  (0 < s /\ s < e) =>
                    /\ WorkAddedBy(k) = Max(0, (e - s) - NextDayBreaksIn(s, e, breaks))
                    /\ NightAddedBy(k) =
                           Max(0, Max(0, e - ns) - NextDayBreaksIn(ns, e, breaks))

(* C9: for a single span and no breaks, nightTime <= workTime.             *)
C9_NightWithinWork ==
    (Done /\ Len(workSpans) = 1 /\ breaks = <<>>) => stats.nightTime <= stats.workTime

\* a single span that reaches into the night
C9_Witness ==
    /\ Done
    /\ Len(workSpans) = 1
    /\ breaks = <<>>
    /\ stats.nightTime > 0
    /\ stats.nightTime < stats.workTime

(* C10: calculateDailyStats is pure: calls with identical spans and breaks *)
(* return identical results in every interleaving with other calls, and a  *)
(* call neither modifies its input lists nor keeps state between calls.    *)
C10_SameInputSameResult ==
    /\ [](\A p \in returned : \A q \in returned : p.args = q.args => p.result = q.result)
    /\ [][\A c \in CallSites : activation'[c].args = activation[c].args]_vars

\* a call site has returned twice and the other, given the same lists, once,
\* with a result that is not all zeros
C10_Witness ==
    \E c \in CallSites : \E d \in CallSites \ {c} :
        /\ activation[c].calls >= 2
        /\ activation[d].calls >= 1
        /\ activation[c].args = activation[d].args
        /\ \E p \in returned : p.args = activation[c].args /\ p.result.workTime > 0

\* every reordering of a list
Reorderings(seq) ==
    {[i \in 1..Len(seq) |-> seq[p[i]]] : p \in Permutations(1..Len(seq))}

(* C11: the result does not depend on the order of the inputs: for every   *)
(* permutation of the span list and every permutation of the break list,   *)
(* workTime, overtime and nightTime are the same.                          *)
C11_OrderIrrelevant ==
    Done =>
        \A spans \in Reorderings(workSpans) : \A brks \in Reorderings(breaks) :
            calculateDailyStats(spans, brks) = stats

\* two spans that add different amounts, and a break that cuts into the day
C11_Witness ==
    /\ Done
    /\ Len(workSpans) >= 2
    /\ spanWork(workSpans[1], breaks) # spanWork(workSpans[2], breaks)
    /\ stats.nightTime > 0
    /\ Len(breaks) >= 1
    /\ stats.workTime < calculateDailyStats(workSpans, <<>>).workTime

\* the string has no hour and minute to read: it is missing or empty, has
\* no colon, or the text before or after the first colon is not a number
Unreadable(t) ==
    \/ t = Undefined
    \/ t = <<>>
    \/ \A k \in 1..Len(t) : t[k] # ":"
    \/ \E k \in 1..Len(t) : t[k] \notin Digits \cup {":"}

\* the lists with 00:00 in the place of every string that is not HH:mm
SpansHHmmOrZero(spans) ==
    [k \in 1..Len(spans) |->
        [start_time |-> IF MatchesHHmm(spans[k].start_time)
                        THEN spans[k].start_time ELSE T0000,
         end_time |-> IF MatchesHHmm(spans[k].end_time)
                      THEN spans[k].end_time ELSE T0000]]
BreaksHHmmOrZero(brks) ==
    [j \in 1..Len(brks) |->
        [start |-> IF MatchesHHmm(brks[j].start) THEN brks[j].start ELSE T0000,
         end |-> IF MatchesHHmm(brks[j].end) THEN brks[j].end ELSE T0000]]

\* the lists with 00:00 in the place of every unreadable string
SpansReadableOrZero(spans) ==
    [k \in 1..Len(spans) |->
        [start_time |-> IF Unreadable(spans[k].start_time)
                        THEN T0000 ELSE spans[k].start_time,
         end_time |-> IF Unreadable(spans[k].end_time)
                      THEN T0000 ELSE spans[k].end_time]]
BreaksReadableOrZero(brks) ==
    [j \in 1..Len(brks) |->
        [start |-> IF Unreadable(brks[j].start) THEN T0000 ELSE brks[j].start,
         end |-> IF Unreadable(brks[j].end) THEN T0000 ELSE brks[j].end]]

AllZero == [workTime |-> 0, overtime |-> 0, nightTime |-> 0]

(* C12: calculateDailyStats returns a result and never raises an error for *)
(* every combination of spans and breaks, empty lists and time strings     *)
(* that are missing or do not match HH:mm included; such strings are read  *)
(* as minute 0; with an empty span list the result is all zeros whatever   *)
(* the breaks are.                                                         *)
C12_NeverRaisesNonHHmmIsZero ==
    /\ pc # "raised"
    /\ Done =>
          /\ stats = calculateDailyStats(SpansHHmmOrZero(workSpans),
                                         BreaksHHmmOrZero(breaks))
          /\ workSpans = <<>> => stats = AllZero

(* C12 as amended: calculateDailyStats returns a result and never raises;  *)
(* a time string that is missing or empty, has no colon, or whose hour or  *)
(* minute part is not a number is read as minute 0 (any other string as    *)
(* hours * 60 + minutes, in or out of the clock's range); with an empty    *)
(* span list the result is all zeros whatever the breaks are.              *)
C12_NeverRaisesUnreadableIsZero ==
    /\ pc # "raised"
    /\ Done =>
          /\ stats = calculateDailyStats(SpansReadableOrZero(workSpans),
                                         BreaksReadableOrZero(breaks))
          /\ workSpans = <<>> => stats = AllZero

\* a span that counts, cut by a break whose start is missing and so read as 0
C12_Witness ==
    /\ Done
    /\ Len(workSpans) = 1
    /\ Len(breaks) = 1
    /\ breaks[1].start = Undefined
    /\ calculateDailyStats(workSpans, <<>>).workTime > stats.workTime

\* the net minutes of each span taken alone, added up
RECURSIVE SumOfSpanNets(_, _)
SumOfSpanNets(spans, brks) ==
    IF spans = <<>> THEN 0
    ELSE calculateDailyStats(<<Head(spans)>>, brks).workTime
         + SumOfSpanNets(Tail(spans), brks)

\* two spans share a minute, or are the same span twice
SomeSpansOverlap ==
    \E k \in 1..Len(workSpans) : \E l \in 1..Len(workSpans) :
        /\ k < l
        /\ OverlapLen(StartMin(workSpans[k]), EndMin(workSpans[k]),
                      StartMin(workSpans[l]), EndMin(workSpans[l])) > 0

(* C13: no upper bound is enforced and nothing is rejected or clamped:     *)
(* workTime is the plain sum of the per-span net minutes, also when spans  *)
(* overlap each other or repeat, so the daily total may exceed 1440.       *)
C13_PlainSumNoCap ==
    Done => stats.workTime = SumOfSpanNets(workSpans, breaks)

\* overlapping spans whose total is more than the minutes of a day
C13_Witness ==
    /\ Done
    /\ SomeSpansOverlap
    /\ stats.workTime > 1440

\* the status a button stands for
StatusOfButton(button) == IF button = "saveDraft" THEN "draft" ELSE "pending"

\* the step is the write of save call c
IsWriteOf(c) ==
    /\ c \in 1..Len(saveCalls)
    /\ saveCalls[c].at = "write"
    /\ saveCalls' = RemoveAt(saveCalls, c)
    /\ Len(saveCalls') < Len(saveCalls)

\* the id of the row save call c writes
RowWrittenBy(c) ==
    IF saveCalls[c].existingRecord # NoRow THEN saveCalls[c].existingRecord
    ELSE Len(attendance_records')

(* C14: the button pressed in the edit form decides the stored status: a   *)
(* save through the save-draft button stores status 'draft', a save        *)
(* through the save-and-submit button stores 'pending', for a new record   *)
(* and for an existing record of any previous status, and also after an    *)
(* earlier save attempt of the same form session failed validation.        *)
C14_ButtonDecidesStatus ==
    [][\A c \in 1..Len(saveCalls) :
          IsWriteOf(c) =>
              attendance_records'[RowWrittenBy(c)].status
                  = StatusOfButton(saveCalls[c].button)]_vars

\* the status changes the workflow allows
AllowedTransitions ==
    {<<"draft", "pending">>, <<"pending", "approved">>,
     <<"pending", "remanded">>, <<"remanded", "pending">>}

(* C15: over any sequence of employee saves and admin approve/remand       *)
(* actions the status of a record changes only along draft->pending,       *)
(* pending->approved, pending->remanded and remanded->pending: an approved *)
(* record never returns to draft or pending, and a draft never becomes     *)
(* approved without passing through pending.                               *)
C15_StatusTransitions ==
    [][\A id \in 1..Len(attendance_records) :
          \/ attendance_records'[id].status = attendance_records[id].status
          \/ <<attendance_records[id].status, attendance_records'[id].status>>
                 \in AllowedTransitions]_vars

\* the step changes the table and is no write of a save call: it is the
\* admin's approve or remand
AdminStep ==
    /\ attendance_records' # attendance_records
    /\ saveCalls' = saveCalls

RECURSIVE ApprovedTotal(_, _)
ApprovedTotal(records, field) ==
    IF records = <<>> THEN 0
    ELSE (IF Head(records).status = "approved" THEN Head(records)[field] ELSE 0)
         + ApprovedTotal(Tail(records), field)

\* the figures are the approved totals and the estimate made from them
FiguresFromApproved(summary, records) ==
    /\ summary.totalWorkMinutes = ApprovedTotal(records, "computed_work_min")
    /\ summary.totalOvertimeMinutes = ApprovedTotal(records, "computed_overtime_min")
    /\ summary.totalNightMinutes = ApprovedTotal(records, "computed_night_min")
    /\ summary.estimatedSalary =
           calculateEstimatedSalary(ApprovedTotal(records, "computed_work_min"),
                                    ApprovedTotal(records, "computed_overtime_min"),
                                    ApprovedTotal(records, "computed_night_min"),
                                    EmployeeWage)

\* the approved records of a list, in their order
RECURSIVE OnlyApproved(_)
OnlyApproved(records) ==
    IF records = <<>> THEN <<>>
    ELSE (IF Head(records).status = "approved" THEN <<Head(records)>> ELSE <<>>)
         \o OnlyApproved(Tail(records))

(* C17: the monthly summary and its salary estimate are computed from the  *)
(* approved records only: the totals are the sums of the three computed    *)
(* fields over the records with status 'approved', the estimate is         *)
(* calculateEstimatedSalary of these sums and the hourly wage, and adding, *)
(* removing or changing a draft, pending or remanded record changes no     *)
(* figure.                                                                 *)
C17_SummaryOfApprovedOnly ==
    /\ [](/\ FiguresFromApproved(summaryShown.dashboard, attendanceRecords)
          /\ FiguresFromApproved(summaryShown.admin, adminRecords))
    /\ [][/\ OnlyApproved(attendanceRecords') = OnlyApproved(attendanceRecords)
             => summaryShown'.dashboard = summaryShown.dashboard
          /\ OnlyApproved(adminRecords') = OnlyApproved(adminRecords)
             => summaryShown'.admin = summaryShown.admin]_vars

\* the dashboard shows an approved record with night work beside a record
\* that is not approved
C17_Witness ==
    /\ \E k \in 1..Len(attendanceRecords) :
           /\ attendanceRecords[k].status = "approved"
           /\ attendanceRecords[k].computed_night_min > 0
    /\ \E k \in 1..Len(attendanceRecords) :
           /\ attendanceRecords[k].status # "approved"
           /\ attendanceRecords[k].computed_work_min > 0
    /\ summaryShown.dashboard.estimatedSalary > 0
    /\ summaryShown.dashboard.totalNightMinutes > 0

(* C18: in every reachable state of the table, after any sequence of       *)
(* employee saves and admin approve/remand actions, the three computed     *)
(* fields of each record are what calculateDailyStats returns for the      *)
(* record's stored work_spans and breaks.                                  *)
C18_ComputedMatchesStored ==
    \A id \in 1..Len(attendance_records) :
        LET row == attendance_records[id]
            result == calculateDailyStats(row.work_spans, row.breaks)
        IN  /\ row.computed_work_min = result.workTime
            /\ row.computed_overtime_min = result.overtime
            /\ row.computed_night_min = result.nightTime

\* a record that was typed over, saved, updated and approved
C18_Witness ==
    \E id \in 1..Len(attendance_records) :
        /\ attendance_records[id].status = "approved"
        /\ attendance_records[id].work_spans # DefaultWorkSpans
        /\ attendance_records[id].computed_night_min > 0
        /\ savesStarted = MaxSaves
        /\ Len(attendance_records) = 1

(* C20: from an empty table, after any sequence and interleaving of        *)
(* handleSaveAttendance calls, two saves of one user and date whose lookup *)
(* and write overlap included, the table holds at most one record per      *)
(* (user_id, date), and a save for a (user, date) that has a record        *)
(* updates that record (same id) instead of creating another.              *)
C20_OneRecordPerUserDate ==
    /\ [](\A i \in 1..Len(attendance_records) : \A j \in 1..Len(attendance_records) :
             (/\ attendance_records[i].user_id = attendance_records[j].user_id
              /\ attendance_records[i].date = attendance_records[j].date) => i = j)
    /\ [][\A c \in 1..Len(saveCalls) :
             (/\ IsWriteOf(c)
              /\ \E id \in 1..Len(attendance_records) :
                     /\ attendance_records[id].user_id = saveCalls[c].userId
                     /\ attendance_records[id].date = saveCalls[c].date)
             => Len(attendance_records') = Len(attendance_records)]_vars

\* the user the last call was about, NoUser when the key names none
CalledUser ==
    IF authCall.fn = "authenticate" THEN getUserByEmail(authCall.key)
    ELSE getUserByEmployeeId(authCall.key)

\* the user of the call made in this step exists and the password given
\* equals the one stored
GivenPasswordIsStored ==
    /\ CalledUser' # NoUser
    /\ UserOf(CalledUser').password = authCall'.password

\* as above, or the user has no password stored (NULL or empty)
GivenPasswordIsStoredOrNoneStored ==
    /\ CalledUser' # NoUser
    /\ \/ UserOf(CalledUser').password = authCall'.password
       \/ UserOf(CalledUser').password \in {NoPassword, ""}

(* C19: authenticate and authenticateByEmployeeId return a user and store  *)
(* it as the current session user only if a user with that email or       *)
(* employee id exists and the password given equals the user's stored      *)
(* password; in every other case they return null and leave the current    *)
(* session user unchanged.                                                 *)
C19_OnlyWithStoredPassword ==
    [][IF GivenPasswordIsStored
       THEN /\ authCall'.returned = CalledUser'
            /\ currentUser' \in {currentUser, CalledUser'}
       ELSE /\ authCall'.returned = NoUser
            /\ currentUser' = currentUser]_vars

(* C19 as amended: they return a user and store it as the current session  *)
(* user only if a user with that email or employee id exists and either    *)
(* the password given equals the user's stored password or the user has no *)
(* password stored; in every other case they return null and leave the     *)
(* current session user unchanged.                                         *)
C19_OnlyWithStoredOrNoPassword ==
    [][IF GivenPasswordIsStoredOrNoneStored
       THEN /\ authCall'.returned = CalledUser'
            /\ currentUser' \in {currentUser, CalledUser'}
       ELSE /\ authCall'.returned = NoUser
            /\ currentUser' = currentUser]_vars

\* a login with a wrong password has returned null and left the session of
\* another user in place
C19_Witness ==
    /\ authCall.fn = "authenticateByEmployeeId"
    /\ authCall.key = "A001"
    /\ authCall.password = "user123"
    /\ authCall.returned = NoUser
    /\ currentUser = "u1"

(* C26: for every input of calculateDailyStats, with any number of spans   *)
(* and any breaks, breaks that overlap each other or repeat included,      *)
(* nightTime <= workTime.                                                  *)
C26_NightWithinWorkAnyInput ==
    Done => stats.nightTime <= stats.workTime

\* the minutes of the clock a time string names
ClockMinutes(time) == timeToMinutes(time)

\* the end of the shift in minutes from the start's midnight: on the next
\* day when it is before the start
ShiftEnd(startTime, endTime) ==
    IF ClockMinutes(endTime) < ClockMinutes(startTime)
    THEN ClockMinutes(endTime) + 1440
    ELSE ClockMinutes(endTime)

\* the minutes of the shift that fall inside 22:00 to 05:00 of the next morning
MinutesInNightWindow(startTime, endTime) ==
    Max(0, Min(ShiftEnd(startTime, endTime), 1440 + 300)
           - Max(ClockMinutes(startTime), 1320))

RECURSIVE SumOfNightMinutes(_)
SumOfNightMinutes(spans) ==
    IF spans = <<>> THEN 0
    ELSE calculateNightMinutes(Head(spans).start_time, Head(spans).end_time, <<>>)
         + SumOfNightMinutes(Tail(spans))

HelperDone(fn) == helperCall.fn = fn /\ helperResult.at = "done"

(* C27: for all HH:mm start and end times and an empty break list,         *)
(* calculateNightMinutes returns the minutes of the shift (the end taken   *)
(* on the next day when it is before the start) that fall inside 22:00 to  *)
(* 05:00 of the following morning; the result never exceeds 420 and never  *)
(* exceeds calculateMinutesBetween(start, end); and                        *)
(* calculateNightMinutesFromSpans with no breaks is the sum of these       *)
(* per-span values.                                                        *)
C27_NightMinutesOfShift ==
    /\ (HelperDone("calculateNightMinutes") /\ helperCall.breaks = <<>>) =>
           /\ helperResult.value =
                  MinutesInNightWindow(StartTimeOf(helperCall), EndTimeOf(helperCall))
           /\ helperResult.value <= 420
           /\ helperResult.value <=
                  calculateMinutesBetween(StartTimeOf(helperCall), EndTimeOf(helperCall))
    /\ (HelperDone("calculateNightMinutesFromSpans") /\ helperCall.breaks = <<>>) =>
           helperResult.value = SumOfNightMinutes(helperCall.workSpans)

RECURSIVE SumOfBreakMinutes(_)
SumOfBreakMinutes(brks) ==
    IF brks = <<>> THEN 0
    ELSE (ShiftEnd(Head(brks).start, Head(brks).end) - ClockMinutes(Head(brks).start))
         + SumOfBreakMinutes(Tail(brks))

(* C28: for all valid HH:mm times calculateMinutesBetween(start, end) is   *)
(* end - start when end is not before start and end + 1440 - start when it *)
(* is, so the result lies in 0..1439 and is 0 exactly when start equals    *)
(* end; calculateWorkMinutes(start, end, breaks) is max(0,                 *)
(* calculateMinutesBetween(start, end) - the sum of calculateMinutesBetween*)
(* over the breaks).                                                       *)
C28_MinutesBetweenAndWork ==
    /\ HelperDone("calculateMinutesBetween") =>
           LET start == ClockMinutes(StartTimeOf(helperCall))
               end == ClockMinutes(EndTimeOf(helperCall))
           IN  /\ helperResult.value =
                      (IF end >= start THEN end - start ELSE end + 1440 - start)
               /\ helperResult.value \in 0..1439
               /\ helperResult.value = 0 <=> StartTimeOf(helperCall) = EndTimeOf(helperCall)
    /\ HelperDone("calculateWorkMinutes") =>
           helperResult.value =
               Max(0, (ShiftEnd(StartTimeOf(helperCall), EndTimeOf(helperCall))
                       - ClockMinutes(StartTimeOf(helperCall)))
                      - SumOfBreakMinutes(helperCall.breaks))

\* a shift that ends on the next day, with two breaks of which one runs over
\* midnight, and work left after them
C28_Witness ==
    /\ HelperDone("calculateWorkMinutes")
    /\ ClockMinutes(EndTimeOf(helperCall)) < ClockMinutes(StartTimeOf(helperCall))
    /\ Len(helperCall.breaks) = 2
    /\ \E j \in 1..2 :
           ClockMinutes(helperCall.breaks[j].end) < ClockMinutes(helperCall.breaks[j].start)
    /\ helperResult.value > 0

\* the year and the month a stored date names
YearOfDate(date) == NumberOf(SubSeq(date, 1, 4))
MonthOfDate(date) == NumberOf(SubSeq(date, 6, 7))

\* the rows of the table of that user, year and month
RowsOfMonth(table, userId, year, month) ==
    {id \in 1..Len(table) :
         /\ table[id].user_id = userId
         /\ YearOfDate(table[id].date) = year
         /\ MonthOfDate(table[id].date) = month}

(* C25: when the backend answers without error,                            *)
(* getAttendanceRecordsByUserIdAndMonth(userId, year, month) returns       *)
(* exactly the stored records whose user_id is userId and whose date lies  *)
(* in that year and month, for every month 1..12, months with fewer than   *)
(* 31 days included, in ascending date order, and never a record of        *)
(* another user or another month.                                          *)
C25_RecordsOfUserAndMonth ==
    queryResult.at = "done" =>
        LET data == queryResult.data
            table == queryCall.table
        IN  /\ {data[k] : k \in 1..Len(data)} =
                   RowsOfMonth(table, queryCall.userId, queryCall.year, queryCall.month)
            /\ Len(data) = Cardinality({data[k] : k \in 1..Len(data)})
            /\ \A i, j \in 1..Len(data) :
                   i < j => YearOfDate(table[data[i]].date) * 10000
                            + MonthOfDate(table[data[i]].date) * 100
                            + NumberOf(SubSeq(table[data[i]].date, 9, 10))
                            <= YearOfDate(table[data[j]].date) * 10000
                               + MonthOfDate(table[data[j]].date) * 100
                               + NumberOf(SubSeq(table[data[j]].date, 9, 10))

\* February is asked for: its one record is returned, the record of the
\* January before it is not
C25_Witness ==
    /\ queryResult.at = "done"
    /\ queryCall.month = 2
    /\ queryCall.year = 2025
    /\ Len(queryCall.table) = 2
    /\ \E id \in 1..2 : queryCall.table[id].date = D20250131
                        /\ queryCall.table[id].user_id = queryCall.userId
    /\ Len(queryResult.data) = 1
    /\ queryCall.table[queryResult.data[1]].date = D20250228

\* the step is the run of the guard's effect
GuardRuns == ~guard.effectRan /\ guard'.effectRan

\* when the guard ran the session held a user whose role is the one the
\* page requires
SawRequiredRole(g) ==
    /\ g.seen # NoUser
    /\ RoleOf(g.seen) = requiredRoleOf(route)

(* C21: a page guarded by useAuth(requiredRole) exposes a non-null user    *)
(* (and isLoading = false) only if, when the guard ran, the session held a *)
(* user whose role equals requiredRole; with no session user it redirects  *)
(* to /login, with a session user of another role it redirects to that     *)
(* role's dashboard, and in both cases user stays null and isLoading stays *)
(* true.                                                                   *)
C21_GuardExposesRequiredRoleOnly ==
    /\ []((guard.user # NoUser \/ ~guard.isLoading) =>
              (/\ guard.effectRan
               /\ SawRequiredRole(guard)
               /\ guard.user = guard.seen
               /\ ~guard.isLoading))
    /\ [][GuardRuns => guard'.seen = currentUser]_vars
    /\ [][(GuardRuns /\ currentUser = NoUser) => guard'.push = "/login"]_vars
    /\ [][(GuardRuns /\ currentUser # NoUser
              /\ RoleOf(currentUser) # requiredRoleOf(route)) =>
              guard'.push = (IF RoleOf(currentUser) = "admin"
                             THEN "/admin/dashboard" ELSE "/dashboard")]_vars
    /\ []((guard.effectRan /\ ~SawRequiredRole(guard)) =>
              (guard.user = NoUser /\ guard.isLoading))

\* an admin page shows the admin, and the dashboard of the employees has
\* sent an employee's session away without showing anything
C21_Witness ==
    \/ /\ route = "/admin/employees"
       /\ guard.user = "u3"
       /\ ~guard.isLoading
       /\ currentUser = "u3"
    \/ /\ route = "/admin/employees"
       /\ guard.seen = "u1"
       /\ guard.push = "/dashboard"

\* nothing is under way on the page: the guard has run and no push is left
GuardSettled ==
    /\ route \in GuardedRoutes
    /\ guard.effectRan
    /\ guard.push = NoPush

(* C22: for every user row the schema accepts (role 'employee' or          *)
(* 'admin'), after a successful login the guarded page that useAuth        *)
(* redirects that user to finishes loading: isLoading becomes false and    *)
(* user is the logged-in user.  Stated on the runs' ends: once the guard   *)
(* has run with a logged-in user and no redirect is left to happen, the    *)
(* page has finished loading and shows that user.                          *)
C22_GuardedPageFinishesLoading ==
    (GuardSettled /\ guard.seen # NoUser) =>
        (~guard.isLoading /\ guard.user = guard.seen)

\* the list shows what the action of request r has done
ReflectsActionOf(r, list) ==
    CASE r.after = "insert" ->
             \E u \in list : /\ u.id = NewIdFor(r.n - 1)
                             /\ u.name = r.data.name
                             /\ u.employee_id = r.data.employee_id
      [] r.after = "update" ->
             \E u \in list : u.id = r.id /\ u.name = r.data.name
      [] r.after = "delete" -> \A u \in list : u.id # r.id
      [] OTHER -> TRUE

\* the step completes the reload that request r stands for
ReloadCompletes(r) ==
    /\ r.kind = "select"
    /\ r.at = "answered"
    /\ requests' = requests \ {r}

(* C23: on the employee management page, once the list reload started by a *)
(* create, update or delete action has completed, the list shown reflects  *)
(* that action (the created employee is present, the updated fields are    *)
(* shown, the deleted employee is absent), for every order in which the    *)
(* backend may complete the write and the reload's read.  Checked for the  *)
(* first action on the page, where no other action can undo it.            *)
C23_ListReflectsAction ==
    [][\A r \in requests :
          (ReloadCompletes(r) /\ actionsStarted = 1) =>
              ReflectsActionOf(r, employees')]_vars

(* C24: on the employee dashboard, once all outstanding record loads have  *)
(* completed, the attendanceRecords shown are the records of the selected  *)
(* (year, month), for every sequence of previous / next month clicks and   *)
(* saves and every order in which the backend answers the loads.           *)
C24_RecordsOfSelectedMonth ==
    monthRequests = {} =>
        monthView.records = recordsOfMonth(monthTable, monthView.year, monthView.month)

====
